---- MODULE Spec2Model ----
(***************************************************************************)
(* Blood donor matching engine of App.py: compatibility table, site graph  *)
(* with Dijkstra distances, donor registry with the 90-day eligibility     *)
(* rule, the emergency min-heap and the match history.                     *)
(*                                                                         *)
(* Conventions.                                                            *)
(*  - Text that the code transforms (blood groups) is a sequence of        *)
(*    characters; normalize_blood_group works on that.  A character is a   *)
(*    one-character string, or the name "U+XXXX" of its code point when    *)
(*    TLA+ cannot spell it (see Chr).                                      *)
(*  - A calendar date is its day number, day 0 being 2024-07-15.  The      *)
(*    wall clock is the variable today; the time of day is not kept since  *)
(*    timedelta.days of (now - midnight of a date) is the day difference.  *)
(*  - A stored last_donation_date is a tagged value: "ymd" (text that      *)
(*    strptime parses, with its day number), "malformed" (text that        *)
(*    strptime rejects with ValueError) or "nontext" (a JSON value that is *)
(*    not text, for which strptime raises TypeError).                      *)
(*  - uuid4 values are modelled by fresh numbers; a donor's id is its      *)
(*    rank in the order of registration, the ten sample donors first.      *)
(*  - Python positions are 0-based; heap[p] of the code is h[p+1] here.    *)
(*                                                                         *)
(* Specifications.  Spec: all handlers, one request at a time.  SpecQueue, *)
(* SpecUrgency, SpecRegistry: the queue handlers and the registry handlers *)
(* with wider inputs.  SpecFunctions: calculate_distance and               *)
(* is_donor_eligible called on their own.  SpecConc: two request threads   *)
(* whose handlers interleave; SpecConcQueue: the same threads with the     *)
(* queue handlers only.                                                    *)
(***************************************************************************)
EXTENDS Integers, Sequences, FiniteSets, TLC

(* ------------------------------ bounds --------------------------------- *)
MaxRegistered == 1
MaxSubmits == 1
MaxMatches == 2
MaxDay == 180
MaxQueueSubmits == 4
MaxConcSubmits == 2

(* --------------------------- program constants ------------------------- *)
INF == 1000000
WAIT_DAYS == 90
SampleCount == 10

CanonicalTypes == {"O-", "O+", "A-", "A+", "B-", "B+", "AB-", "AB+"}

BLOOD_COMPATIBILITY ==
    [t \in CanonicalTypes |->
       CASE t = "O-"  -> <<"O-">>
         [] t = "O+"  -> <<"O-", "O+">>
         [] t = "A-"  -> <<"O-", "A-">>
         [] t = "A+"  -> <<"O-", "O+", "A-", "A+">>
         [] t = "B-"  -> <<"O-", "B-">>
         [] t = "B+"  -> <<"O-", "O+", "B-", "B+">>
         [] t = "AB-" -> <<"O-", "A-", "B-", "AB-">>
         [] t = "AB+" -> <<"O-", "O+", "A-", "A+", "B-", "B+", "AB-", "AB+">>]

Sites == {"Hospital A", "Hospital B", "Hospital C", "Hospital D"}

LOCATIONS ==
    [a \in Sites |->
       CASE a = "Hospital A" ->
              [b \in Sites |-> CASE b = "Hospital A" -> 0  [] b = "Hospital B" -> 15
                                 [] b = "Hospital C" -> 25 [] b = "Hospital D" -> 35]
         [] a = "Hospital B" ->
              [b \in Sites |-> CASE b = "Hospital A" -> 15 [] b = "Hospital B" -> 0
                                 [] b = "Hospital C" -> 8  [] b = "Hospital D" -> 10]
         [] a = "Hospital C" ->
              [b \in Sites |-> CASE b = "Hospital A" -> 25 [] b = "Hospital B" -> 8
                                 [] b = "Hospital C" -> 0  [] b = "Hospital D" -> 30]
         [] a = "Hospital D" ->
              [b \in Sites |-> CASE b = "Hospital A" -> 35 [] b = "Hospital B" -> 10
                                 [] b = "Hospital C" -> 30 [] b = "Hospital D" -> 0]]

(* Order of the site names as Python compares str values. *)
LocRank ==
    [a \in Sites |->
       CASE a = "Hospital A" -> 1 [] a = "Hospital B" -> 2
         [] a = "Hospital C" -> 3 [] a = "Hospital D" -> 4]

(* ----------------------- normalize_blood_group ------------------------- *)
HexDigits == {"0","1","2","3","4","5","6","7","8","9",
              "a","b","c","d","e","f","A","B","C","D","E","F"}

HexValue ==
    [h \in HexDigits |->
       CASE h = "0" -> 0 [] h = "1" -> 1 [] h = "2" -> 2 [] h = "3" -> 3
         [] h = "4" -> 4 [] h = "5" -> 5 [] h = "6" -> 6 [] h = "7" -> 7
         [] h = "8" -> 8 [] h = "9" -> 9
         [] h \in {"a", "A"} -> 10 [] h \in {"b", "B"} -> 11
         [] h \in {"c", "C"} -> 12 [] h \in {"d", "D"} -> 13
         [] h \in {"e", "E"} -> 14 [] h \in {"f", "F"} -> 15]

(* The byte a %XX escape stands for. *)
HexDecode(h1, h2) == 16 * HexValue[h1] + HexValue[h2]

(* A text is a sequence of characters.  A character is written as a       *)
(* one-character string when TLA+ can spell it (the printable ASCII        *)
(* characters but the grave accent, and \t, \n, \f, \r) and as the name    *)
(* "U+XXXX" of its code point otherwise: "U+000B" is the vertical tab,     *)
(* "U+0060" the grave accent, "U+00A0" the no-break space.                 *)
Printable ==
    <<
      " ", "!", "\"", "#", "$", "%", "&", "'", "(", ")", "*", "+",
      ",", "-", ".", "/", "0", "1", "2", "3", "4", "5", "6", "7",
      "8", "9", ":", ";", "<", "=", ">", "?", "@", "A", "B", "C",
      "D", "E", "F", "G", "H", "I", "J", "K", "L", "M", "N", "O",
      "P", "Q", "R", "S", "T", "U", "V", "W", "X", "Y", "Z", "[",
      "\\", "]", "^", "_", "U+0060", "a", "b", "c", "d", "e", "f", "g",
      "h", "i", "j", "k", "l", "m", "n", "o", "p", "q", "r", "s",
      "t", "u", "v", "w", "x", "y", "z", "{", "|", "}", "~"
    >>

HexUpper == <<"0","1","2","3","4","5","6","7","8","9","A","B","C","D","E","F">>

CodeName(n) ==
    "U+" \o (IF n >= 1048576 THEN HexUpper[(n \div 1048576) + 1] ELSE "")
         \o (IF n >= 65536 THEN HexUpper[((n \div 65536) % 16) + 1] ELSE "")
         \o HexUpper[((n \div 4096) % 16) + 1]
         \o HexUpper[((n \div 256) % 16) + 1]
         \o HexUpper[((n \div 16) % 16) + 1]
         \o HexUpper[(n % 16) + 1]

Chr(n) ==
    CASE n \in 32..126 -> Printable[n - 31]
      [] n = 9 -> "\t"
      [] n = 10 -> "\n"
      [] n = 12 -> "\f"
      [] n = 13 -> "\r"
      [] OTHER -> CodeName(n)

Text(codes) == [i \in 1..Len(codes) |-> Chr(codes[i])]

(* The code points str.isspace() accepts, which str.strip() removes. *)
WhitespaceCodes ==
    (9..13) \cup (28..32) \cup {133, 160, 5760} \cup (8192..8202)
            \cup {8232, 8233, 8239, 8287, 12288}

Replacement == 65533

AsciiChars == {Chr(n) : n \in 0..127}

Ord == [c \in AsciiChars |-> CHOOSE n \in 0..127 : Chr(n) = c]

(* unquote_to_bytes on a run of ASCII characters: a valid escape is one   *)
(* byte, every other character is its own byte.                           *)
RECURSIVE unquote_to_bytes(_)
unquote_to_bytes(s) ==
    IF s = <<>> THEN <<>>
    ELSE IF s[1] = "%" /\ Len(s) >= 3 /\ s[2] \in HexDigits /\ s[3] \in HexDigits
         THEN <<HexDecode(s[2], s[3])>> \o unquote_to_bytes(SubSeq(s, 4, Len(s)))
         ELSE <<Ord[s[1]]>> \o unquote_to_bytes(Tail(s))

(* bytes.decode with utf-8 and replace: the code points of a byte         *)
(* sequence; an invalid start byte, and a sequence cut short by a byte    *)
(* that cannot continue it or by the end of the data, become one U+FFFD.  *)
RECURSIVE decode(_)
decode(b) ==
    IF b = <<>> THEN <<>>
    ELSE LET b0 == b[1]
             rest(n) == SubSeq(b, n + 1, Len(b))
         IN IF b0 < 128 THEN <<b0>> \o decode(Tail(b))
            ELSE IF b0 < 194 \/ b0 > 244 THEN <<Replacement>> \o decode(Tail(b))
            ELSE LET need == IF b0 < 224 THEN 1 ELSE IF b0 < 240 THEN 2 ELSE 3
                     lo == IF b0 = 224 THEN 160 ELSE IF b0 = 240 THEN 144 ELSE 128
                     hi == IF b0 = 237 THEN 159 ELSE IF b0 = 244 THEN 143 ELSE 191
                     Good(j) ==
                         /\ j + 1 <= Len(b)
                         /\ b[j + 1] >= (IF j = 1 THEN lo ELSE 128)
                         /\ b[j + 1] <= (IF j = 1 THEN hi ELSE 191)
                     valid == IF ~Good(1) THEN 0
                              ELSE IF need = 1 \/ ~Good(2) THEN 1
                              ELSE IF need = 2 \/ ~Good(3) THEN 2
                              ELSE 3
                     code == CASE need = 1 -> (b0 % 32) * 64 + (b[2] % 64)
                               [] need = 2 -> (b0 % 16) * 4096 + (b[2] % 64) * 64
                                              + (b[3] % 64)
                               [] need = 3 -> (b0 % 8) * 262144 + (b[2] % 64) * 4096
                                              + (b[3] % 64) * 64 + (b[4] % 64)
                 IN IF valid = need THEN <<code>> \o decode(rest(need + 1))
                    ELSE <<Replacement>> \o decode(rest(valid + 1))

RECURSIVE AsciiRun(_)
AsciiRun(s) ==
    IF s # <<>> /\ s[1] \in AsciiChars THEN 1 + AsciiRun(Tail(s)) ELSE 0

(* The escapes of each run of ASCII characters are decoded together; the  *)
(* characters outside ASCII are copied.                                    *)
RECURSIVE unquote_runs(_)
unquote_runs(s) ==
    IF s = <<>> THEN <<>>
    ELSE IF s[1] \notin AsciiChars THEN <<s[1]>> \o unquote_runs(Tail(s))
    ELSE LET n == AsciiRun(s)
         IN Text(decode(unquote_to_bytes(SubSeq(s, 1, n))))
              \o unquote_runs(SubSeq(s, n + 1, Len(s)))

unquote(s) ==
    IF \A i \in 1..Len(s) : s[i] # "%" THEN s ELSE unquote_runs(s)

Whitespace == {Chr(n) : n \in WhitespaceCodes}

RECURSIVE lstrip(_)
lstrip(s) == IF s # <<>> /\ s[1] \in Whitespace THEN lstrip(Tail(s)) ELSE s

RECURSIVE rstrip(_)
rstrip(s) ==
    IF s # <<>> /\ s[Len(s)] \in Whitespace THEN rstrip(SubSeq(s, 1, Len(s) - 1)) ELSE s

strip(s) == rstrip(lstrip(s))

(* str.upper() (Unicode 14.0, the database of Python 3.11).  A row        *)
(* <<first, last, step, down>> of UpperRanges says that the code points    *)
(* first, first + step, ..., last have the upper-case form n - down.       *)
UpperRanges ==
    <<
      <<97, 122, 1, 32>>, <<181, 181, 1, -743>>, <<224, 246, 1, 32>>,
      <<248, 254, 1, 32>>, <<255, 255, 1, -121>>, <<257, 303, 2, 1>>,
      <<305, 305, 1, 232>>, <<307, 311, 2, 1>>, <<314, 328, 2, 1>>,
      <<331, 375, 2, 1>>, <<378, 382, 2, 1>>, <<383, 383, 1, 300>>,
      <<384, 384, 1, -195>>, <<387, 389, 2, 1>>, <<392, 392, 1, 1>>,
      <<396, 396, 1, 1>>, <<402, 402, 1, 1>>, <<405, 405, 1, -97>>,
      <<409, 409, 1, 1>>, <<410, 410, 1, -163>>, <<414, 414, 1, -130>>,
      <<417, 421, 2, 1>>, <<424, 424, 1, 1>>, <<429, 429, 1, 1>>,
      <<432, 432, 1, 1>>, <<436, 438, 2, 1>>, <<441, 441, 1, 1>>,
      <<445, 445, 1, 1>>, <<447, 447, 1, -56>>, <<453, 453, 1, 1>>,
      <<454, 454, 1, 2>>, <<456, 456, 1, 1>>, <<457, 457, 1, 2>>,
      <<459, 459, 1, 1>>, <<460, 460, 1, 2>>, <<462, 476, 2, 1>>,
      <<477, 477, 1, 79>>, <<479, 495, 2, 1>>, <<498, 498, 1, 1>>,
      <<499, 499, 1, 2>>, <<501, 501, 1, 1>>, <<505, 543, 2, 1>>,
      <<547, 563, 2, 1>>, <<572, 572, 1, 1>>, <<575, 576, 1, -10815>>,
      <<578, 578, 1, 1>>, <<583, 591, 2, 1>>, <<592, 592, 1, -10783>>,
      <<593, 593, 1, -10780>>, <<594, 594, 1, -10782>>,
      <<595, 595, 1, 210>>, <<596, 596, 1, 206>>, <<598, 599, 1, 205>>,
      <<601, 601, 1, 202>>, <<603, 603, 1, 203>>, <<604, 604, 1, -42319>>,
      <<608, 608, 1, 205>>, <<609, 609, 1, -42315>>, <<611, 611, 1, 207>>,
      <<613, 613, 1, -42280>>, <<614, 614, 1, -42308>>,
      <<616, 616, 1, 209>>, <<617, 617, 1, 211>>, <<618, 618, 1, -42308>>,
      <<619, 619, 1, -10743>>, <<620, 620, 1, -42305>>,
      <<623, 623, 1, 211>>, <<625, 625, 1, -10749>>, <<626, 626, 1, 213>>,
      <<629, 629, 1, 214>>, <<637, 637, 1, -10727>>, <<640, 640, 1, 218>>,
      <<642, 642, 1, -42307>>, <<643, 643, 1, 218>>,
      <<647, 647, 1, -42282>>, <<648, 648, 1, 218>>, <<649, 649, 1, 69>>,
      <<650, 651, 1, 217>>, <<652, 652, 1, 71>>, <<658, 658, 1, 219>>,
      <<669, 669, 1, -42261>>, <<670, 670, 1, -42258>>,
      <<837, 837, 1, -84>>, <<881, 883, 2, 1>>, <<887, 887, 1, 1>>,
      <<891, 893, 1, -130>>, <<940, 940, 1, 38>>, <<941, 943, 1, 37>>,
      <<945, 961, 1, 32>>, <<962, 962, 1, 31>>, <<963, 971, 1, 32>>,
      <<972, 972, 1, 64>>, <<973, 974, 1, 63>>, <<976, 976, 1, 62>>,
      <<977, 977, 1, 57>>, <<981, 981, 1, 47>>, <<982, 982, 1, 54>>,
      <<983, 983, 1, 8>>, <<985, 1007, 2, 1>>, <<1008, 1008, 1, 86>>,
      <<1009, 1009, 1, 80>>, <<1010, 1010, 1, -7>>, <<1011, 1011, 1, 116>>,
      <<1013, 1013, 1, 96>>, <<1016, 1016, 1, 1>>, <<1019, 1019, 1, 1>>,
      <<1072, 1103, 1, 32>>, <<1104, 1119, 1, 80>>, <<1121, 1153, 2, 1>>,
      <<1163, 1215, 2, 1>>, <<1218, 1230, 2, 1>>, <<1231, 1231, 1, 15>>,
      <<1233, 1327, 2, 1>>, <<1377, 1414, 1, 48>>,
      <<4304, 4346, 1, -3008>>, <<4349, 4351, 1, -3008>>,
      <<5112, 5117, 1, 8>>, <<7296, 7296, 1, 6254>>,
      <<7297, 7297, 1, 6253>>, <<7298, 7298, 1, 6244>>,
      <<7299, 7300, 1, 6242>>, <<7301, 7301, 1, 6243>>,
      <<7302, 7302, 1, 6236>>, <<7303, 7303, 1, 6181>>,
      <<7304, 7304, 1, -35266>>, <<7545, 7545, 1, -35332>>,
      <<7549, 7549, 1, -3814>>, <<7566, 7566, 1, -35384>>,
      <<7681, 7829, 2, 1>>, <<7835, 7835, 1, 59>>, <<7841, 7935, 2, 1>>,
      <<7936, 7943, 1, -8>>, <<7952, 7957, 1, -8>>, <<7968, 7975, 1, -8>>,
      <<7984, 7991, 1, -8>>, <<8000, 8005, 1, -8>>, <<8017, 8023, 2, -8>>,
      <<8032, 8039, 1, -8>>, <<8048, 8049, 1, -74>>,
      <<8050, 8053, 1, -86>>, <<8054, 8055, 1, -100>>,
      <<8056, 8057, 1, -128>>, <<8058, 8059, 1, -112>>,
      <<8060, 8061, 1, -126>>, <<8112, 8113, 1, -8>>,
      <<8126, 8126, 1, 7205>>, <<8144, 8145, 1, -8>>,
      <<8160, 8161, 1, -8>>, <<8165, 8165, 1, -7>>, <<8526, 8526, 1, 28>>,
      <<8560, 8575, 1, 16>>, <<8580, 8580, 1, 1>>, <<9424, 9449, 1, 26>>,
      <<11312, 11359, 1, 48>>, <<11361, 11361, 1, 1>>,
      <<11365, 11365, 1, 10795>>, <<11366, 11366, 1, 10792>>,
      <<11368, 11372, 2, 1>>, <<11379, 11379, 1, 1>>,
      <<11382, 11382, 1, 1>>, <<11393, 11491, 2, 1>>,
      <<11500, 11502, 2, 1>>, <<11507, 11507, 1, 1>>,
      <<11520, 11557, 1, 7264>>, <<11559, 11559, 1, 7264>>,
      <<11565, 11565, 1, 7264>>, <<42561, 42605, 2, 1>>,
      <<42625, 42651, 2, 1>>, <<42787, 42799, 2, 1>>,
      <<42803, 42863, 2, 1>>, <<42874, 42876, 2, 1>>,
      <<42879, 42887, 2, 1>>, <<42892, 42892, 1, 1>>,
      <<42897, 42899, 2, 1>>, <<42900, 42900, 1, -48>>,
      <<42903, 42921, 2, 1>>, <<42933, 42947, 2, 1>>,
      <<42952, 42954, 2, 1>>, <<42961, 42961, 1, 1>>,
      <<42967, 42969, 2, 1>>, <<42998, 42998, 1, 1>>,
      <<43859, 43859, 1, 928>>, <<43888, 43967, 1, 38864>>,
      <<65345, 65370, 1, 32>>, <<66600, 66639, 1, 40>>,
      <<66776, 66811, 1, 40>>, <<66967, 66977, 1, 39>>,
      <<66979, 66993, 1, 39>>, <<66995, 67001, 1, 39>>,
      <<67003, 67004, 1, 39>>, <<68800, 68850, 1, 64>>,
      <<71872, 71903, 1, 32>>, <<93792, 93823, 1, 32>>,
      <<125218, 125251, 1, 34>>
    >>

(* The code points whose upper-case form is more than one character, with  *)
(* that form.                                                              *)
UpperSpecial ==
    <<
      <<223, <<83, 83>>>>, <<329, <<700, 78>>>>, <<496, <<74, 780>>>>,
      <<912, <<921, 776, 769>>>>, <<944, <<933, 776, 769>>>>,
      <<1415, <<1333, 1362>>>>, <<7830, <<72, 817>>>>,
      <<7831, <<84, 776>>>>, <<7832, <<87, 778>>>>, <<7833, <<89, 778>>>>,
      <<7834, <<65, 702>>>>, <<8016, <<933, 787>>>>,
      <<8018, <<933, 787, 768>>>>, <<8020, <<933, 787, 769>>>>,
      <<8022, <<933, 787, 834>>>>, <<8064, <<7944, 921>>>>,
      <<8065, <<7945, 921>>>>, <<8066, <<7946, 921>>>>,
      <<8067, <<7947, 921>>>>, <<8068, <<7948, 921>>>>,
      <<8069, <<7949, 921>>>>, <<8070, <<7950, 921>>>>,
      <<8071, <<7951, 921>>>>, <<8072, <<7944, 921>>>>,
      <<8073, <<7945, 921>>>>, <<8074, <<7946, 921>>>>,
      <<8075, <<7947, 921>>>>, <<8076, <<7948, 921>>>>,
      <<8077, <<7949, 921>>>>, <<8078, <<7950, 921>>>>,
      <<8079, <<7951, 921>>>>, <<8080, <<7976, 921>>>>,
      <<8081, <<7977, 921>>>>, <<8082, <<7978, 921>>>>,
      <<8083, <<7979, 921>>>>, <<8084, <<7980, 921>>>>,
      <<8085, <<7981, 921>>>>, <<8086, <<7982, 921>>>>,
      <<8087, <<7983, 921>>>>, <<8088, <<7976, 921>>>>,
      <<8089, <<7977, 921>>>>, <<8090, <<7978, 921>>>>,
      <<8091, <<7979, 921>>>>, <<8092, <<7980, 921>>>>,
      <<8093, <<7981, 921>>>>, <<8094, <<7982, 921>>>>,
      <<8095, <<7983, 921>>>>, <<8096, <<8040, 921>>>>,
      <<8097, <<8041, 921>>>>, <<8098, <<8042, 921>>>>,
      <<8099, <<8043, 921>>>>, <<8100, <<8044, 921>>>>,
      <<8101, <<8045, 921>>>>, <<8102, <<8046, 921>>>>,
      <<8103, <<8047, 921>>>>, <<8104, <<8040, 921>>>>,
      <<8105, <<8041, 921>>>>, <<8106, <<8042, 921>>>>,
      <<8107, <<8043, 921>>>>, <<8108, <<8044, 921>>>>,
      <<8109, <<8045, 921>>>>, <<8110, <<8046, 921>>>>,
      <<8111, <<8047, 921>>>>, <<8114, <<8122, 921>>>>,
      <<8115, <<913, 921>>>>, <<8116, <<902, 921>>>>,
      <<8118, <<913, 834>>>>, <<8119, <<913, 834, 921>>>>,
      <<8124, <<913, 921>>>>, <<8130, <<8138, 921>>>>,
      <<8131, <<919, 921>>>>, <<8132, <<905, 921>>>>,
      <<8134, <<919, 834>>>>, <<8135, <<919, 834, 921>>>>,
      <<8140, <<919, 921>>>>, <<8146, <<921, 776, 768>>>>,
      <<8147, <<921, 776, 769>>>>, <<8150, <<921, 834>>>>,
      <<8151, <<921, 776, 834>>>>, <<8162, <<933, 776, 768>>>>,
      <<8163, <<933, 776, 769>>>>, <<8164, <<929, 787>>>>,
      <<8166, <<933, 834>>>>, <<8167, <<933, 776, 834>>>>,
      <<8178, <<8186, 921>>>>, <<8179, <<937, 921>>>>,
      <<8180, <<911, 921>>>>, <<8182, <<937, 834>>>>,
      <<8183, <<937, 834, 921>>>>, <<8188, <<937, 921>>>>,
      <<64256, <<70, 70>>>>, <<64257, <<70, 73>>>>, <<64258, <<70, 76>>>>,
      <<64259, <<70, 70, 73>>>>, <<64260, <<70, 70, 76>>>>,
      <<64261, <<83, 84>>>>, <<64262, <<83, 84>>>>,
      <<64275, <<1348, 1350>>>>, <<64276, <<1348, 1333>>>>,
      <<64277, <<1348, 1339>>>>, <<64278, <<1358, 1350>>>>,
      <<64279, <<1348, 1341>>>>
    >>

InRange(n, r) == r[1] <= n /\ n <= r[2] /\ (n - r[1]) % r[3] = 0

(* The pairs <<character, upper-cased text>> of the rows of one range. *)
RangePairs(r) ==
    {<<Chr(n), <<Chr(n - r[4])>>>> : n \in {m \in r[1]..r[2] : InRange(m, r)}}

UpperPairs(ranges, special) ==
    UNION {RangePairs(ranges[i]) : i \in 1..Len(ranges)}
      \cup {<<Chr(special[i][1]), Text(special[i][2])>> : i \in 1..Len(special)}

PairsTable(pairs) == [c \in {p[1] : p \in pairs} |-> (CHOOSE p \in pairs : p[1] = c)[2]]

(* str.upper() of every character that it changes. *)
UpperTable == PairsTable(UpperPairs(UpperRanges, UpperSpecial))

Mapped(table, c) == IF c \in DOMAIN table THEN table[c] ELSE <<c>>

UpperChar(c) == Mapped(UpperTable, c)

RECURSIVE upper(_)
upper(s) == IF s = <<>> THEN <<>> ELSE UpperChar(s[1]) \o upper(Tail(s))

RECURSIVE remove_spaces(_)
remove_spaces(s) ==
    IF s = <<>> THEN <<>>
    ELSE IF s[1] = " " THEN remove_spaces(Tail(s))
         ELSE <<s[1]>> \o remove_spaces(Tail(s))

RECURSIVE Join(_)
Join(s) == IF s = <<>> THEN "" ELSE s[1] \o Join(Tail(s))

normalize_blood_group(bg) == Join(remove_spaces(upper(strip(unquote(bg)))))

(* ----------------------------- dates ----------------------------------- *)
Ymd(d) == [kind |-> "ymd", day |-> d]
Malformed == [kind |-> "malformed", day |-> 0]
NonText == [kind |-> "nontext", day |-> 0]
(* A donor record without the key last_donation_date. *)
Absent == [kind |-> "absent", day |-> 0]

(* datetime.now().strftime('%Y-%m-%d') *)
strftime(now) == Ymd(now)

is_donor_eligible_ShortWait(donor, now) ==
    CASE donor.last_donation_date.kind = "nontext" -> "raise"
      [] donor.last_donation_date.kind = "malformed" -> "false"
      [] donor.last_donation_date.kind = "absent" -> "false"
      [] OTHER -> IF now - donor.last_donation_date.day >= 9
                  THEN "true" ELSE "false"

is_donor_eligible_StrictlyMore(donor, now) ==
    CASE donor.last_donation_date.kind = "nontext" -> "raise"
      [] donor.last_donation_date.kind = "malformed" -> "false"
      [] donor.last_donation_date.kind = "absent" -> "false"
      [] OTHER -> IF now - donor.last_donation_date.day > WAIT_DAYS
                  THEN "true" ELSE "false"

(* is_donor_eligible: "raise" stands for the TypeError that strptime       *)
(* raises for a value that is not text and that the except clause,         *)
(* (ValueError, KeyError), does not catch.  The clause catches the         *)
(* ValueError of a malformed text and the KeyError of a donor without      *)
(* the key.                                                                *)
is_donor_eligible(donor, now) ==
    CASE donor.last_donation_date.kind = "nontext" -> "raise"
      [] donor.last_donation_date.kind = "malformed" -> "false"
      [] donor.last_donation_date.kind = "absent" -> "false"
      [] OTHER -> IF now - donor.last_donation_date.day >= WAIT_DAYS
                  THEN "true" ELSE "false"

(* ------------------------- calculate_distance -------------------------- *)
PqLess(x, y) ==
    x[1] < y[1] \/ (x[1] = y[1] /\ LocRank[x[2]] < LocRank[y[2]])

PqMin(pq) == CHOOSE x \in pq : \A y \in pq \ {x} : PqLess(x, y)

RECURSIVE dijkstra(_, _, _, _)
dijkstra(pq, distances, visited, to_location) ==
    IF pq = {} THEN distances[to_location]
    ELSE LET cur == PqMin(pq)
             current_dist == cur[1]
             current_loc == cur[2]
             rest == pq \ {cur}
         IN IF current_loc \in visited
            THEN dijkstra(rest, distances, visited, to_location)
            ELSE IF current_loc = to_location THEN current_dist
            ELSE LET better == {n \in Sites :
                                  current_dist + LOCATIONS[current_loc][n] < distances[n]}
                     nd == [n \in Sites |->
                              IF n \in better
                              THEN current_dist + LOCATIONS[current_loc][n]
                              ELSE distances[n]]
                 IN dijkstra(rest \cup {<<nd[n], n>> : n \in better}, nd,
                             visited \cup {current_loc}, to_location)

calculate_distance_DirectEdge(from_location, to_location) ==
    IF from_location \notin Sites \/ to_location \notin Sites THEN INF
    ELSE LOCATIONS[from_location][to_location]

calculate_distance(from_location, to_location) ==
    IF from_location \notin Sites \/ to_location \notin Sites THEN INF
    ELSE dijkstra({<<0, from_location>>},
                  [n \in Sites |-> IF n = from_location THEN 0 ELSE INF],
                  {}, to_location)

(* The sites that requests name: the known ones and two that are unknown. *)
RequestSites == Sites \cup {"Nowhere", "Clinic E"}

(* calculate_distance for every pair of a request's site and a donor's     *)
(* site, computed once.                                                    *)
distance_table ==
    [a \in RequestSites |-> [b \in Sites |-> calculate_distance(a, b)]]

(* ------------------------------ state ---------------------------------- *)
VARIABLES
    donors_by_blood_group,  \* blood type -> list of donor records
    emergency_requests,     \* the heap list of (urgency, counter, request_data)
    emergency_counter,      \* emergency_counter[0]
    matching_history,       \* list of match records, oldest first
    today,                  \* the day datetime.now() falls on
    processed,              \* number of heappop calls made so far
    response,               \* what the last handler returned
    threads                 \* the request threads of the server (see SpecConc)

vars == <<donors_by_blood_group, emergency_requests, emergency_counter,
          matching_history, today, processed, response, threads>>

(* --------------------------- sample data ------------------------------- *)
Donor(id, name, bg, loc, date) ==
    [id |-> id, name |-> name, blood_group |-> bg, location |-> loc,
     last_donation_date |-> date, total_donations |-> 0]

sample_donors ==
    << [name |-> "John Doe",       blood_group |-> <<"O","-">>,     location |-> "Hospital A", last_donation_date |-> Ymd(17)],
       [name |-> "Jane Smith",     blood_group |-> <<"O","+">>,     location |-> "Hospital B", last_donation_date |-> Ymd(31)],
       [name |-> "Bob Johnson",    blood_group |-> <<"A","+">>,     location |-> "Hospital C", last_donation_date |-> Ymd(5)],
       [name |-> "Alice Williams", blood_group |-> <<"B","-">>,     location |-> "Hospital D", last_donation_date |-> Ymd(26)],
       [name |-> "Charlie Brown",  blood_group |-> <<"A","B","+">>, location |-> "Hospital A", last_donation_date |-> Ymd(17)],
       [name |-> "David Miller",   blood_group |-> <<"O","-">>,     location |-> "Hospital C", last_donation_date |-> Ymd(0)],
       [name |-> "Emma Davis",     blood_group |-> <<"A","-">>,     location |-> "Hospital B", last_donation_date |-> Ymd(5)],
       [name |-> "Frank Wilson",   blood_group |-> <<"B","+">>,     location |-> "Hospital D", last_donation_date |-> Ymd(17)],
       [name |-> "Grace Lee",      blood_group |-> <<"O","+">>,     location |-> "Hospital A", last_donation_date |-> Ymd(10)],
       [name |-> "Henry Taylor",   blood_group |-> <<"A","+">>,     location |-> "Hospital B", last_donation_date |-> Ymd(21)] >>

RECURSIVE initialize_sample_data(_, _)
initialize_sample_data(reg, i) ==
    IF i > Len(sample_donors) THEN reg
    ELSE LET d == sample_donors[i]
             blood_group == normalize_blood_group(d.blood_group)
         IN initialize_sample_data(
              [reg EXCEPT ![blood_group] =
                  Append(@, Donor(i, d.name, blood_group, d.location, d.last_donation_date))],
              i + 1)

(* The days on which the process may be started. *)
StartDays == {90, 95}

NoDonor == <<"none", 0>>

(* A request thread: where it is in its handler and the handler's locals. *)
Threads == {1, 2}
NoItem == [urgency |-> 0, urgency_type |-> "int", counter |-> 0,
           data |-> [id |-> 0, patient |-> [blood_group |-> <<>>, location |-> ""],
                     timestamp |-> 0]]

(* What a handler returned; body is the list a read-only handler returns. *)
Response(op, status, error, found, donor, distance, tickets, remaining) ==
    [op |-> op, status |-> status, error |-> error, match_found |-> found,
     donor |-> donor, distance |-> distance, tickets |-> tickets,
     remaining |-> remaining, body |-> <<>>]

NoReply == Response("none", 0, "none", FALSE, NoDonor, 0, <<>>, 0)
Idle == [pc |-> "idle", blood_group |-> <<>>, location |-> "", cands |-> <<>>, k |-> 0,
         donor |-> NoDonor, distance |-> 0, error |-> "none", item |-> NoItem,
         count |-> 0, reply |-> NoReply]

Listing(op, status, error, body) ==
    [Response(op, status, error, FALSE, NoDonor, 0, <<>>, 0) EXCEPT !.body = body]

Init ==
    /\ donors_by_blood_group =
          initialize_sample_data([t \in CanonicalTypes |-> <<>>], 1)
    /\ emergency_requests = <<>>
    /\ emergency_counter = 0
    /\ matching_history = <<>>
    /\ today \in StartDays
    /\ processed = 0
    /\ response = Response("start", 0, "none", FALSE, NoDonor, 0, <<>>, 0)
    /\ threads = [t \in Threads |-> Idle]

(* ------------------------- find_nearest_donor -------------------------- *)
RECURSIVE all_compatible_donors(_, _, _)
all_compatible_donors(reg, compatible_types, k) ==
    IF k > Len(compatible_types) THEN <<>>
    ELSE [i \in 1..Len(reg[compatible_types[k]]) |-> <<compatible_types[k], i>>]
         \o all_compatible_donors(reg, compatible_types, k + 1)

DonorAt(reg, ref) == reg[ref[1]][ref[2]]

(* One pass of the loop of find_nearest_donor (lines 105 to 109) for the   *)
(* candidate ref, with the loop variables best_donor and min_distance.     *)
loop_body(reg, now, patient_location, ref, best_donor, min_distance) ==
    LET donor == DonorAt(reg, ref)
        eligible == is_donor_eligible(donor, now)
    IN IF eligible = "raise"
       THEN [donor |-> NoDonor, distance |-> INF, raised |-> TRUE]
       ELSE IF eligible = "true"
               /\ distance_table[patient_location][donor.location] < min_distance
            THEN [donor |-> ref,
                  distance |-> distance_table[patient_location][donor.location],
                  raised |-> FALSE]
            ELSE [donor |-> best_donor, distance |-> min_distance, raised |-> FALSE]

(* The loop of find_nearest_donor over the list cands from position k on.  *)
RECURSIVE nearest_loop(_, _, _, _, _, _, _)
nearest_loop(reg, now, patient_location, cands, k, best_donor, min_distance) ==
    IF k > Len(cands)
    THEN [donor |-> best_donor, distance |-> min_distance, raised |-> FALSE]
    ELSE LET r == loop_body(reg, now, patient_location, cands[k], best_donor, min_distance)
         IN IF r.raised THEN r
            ELSE nearest_loop(reg, now, patient_location, cands, k + 1, r.donor, r.distance)

find_nearest_donor(reg, now, patient_blood_group, patient_location) ==
    LET bg == normalize_blood_group(patient_blood_group) IN
    IF bg \notin DOMAIN BLOOD_COMPATIBILITY
    THEN [donor |-> NoDonor, distance |-> 0, error |-> "InvalidBloodType"]
    ELSE LET cands == all_compatible_donors(reg, BLOOD_COMPATIBILITY[bg], 1) IN
         IF cands = <<>>
         THEN [donor |-> NoDonor, distance |-> 0, error |-> "NoCompatibleDonors"]
         ELSE LET r == nearest_loop(reg, now, patient_location, cands, 1, NoDonor, INF) IN
              IF r.raised
              THEN [donor |-> NoDonor, distance |-> 0, error |-> "TypeError"]
              ELSE IF r.donor # NoDonor
                   THEN [donor |-> r.donor, distance |-> r.distance, error |-> "none"]
                   ELSE [donor |-> NoDonor, distance |-> 0, error |-> "NoEligibleDonors"]

mark_donated_WrongCount(reg, ref, now) ==
    [reg EXCEPT ![ref[1]][ref[2]] =
        [@ EXCEPT !.last_donation_date = strftime(now),
                  !.total_donations = 1]]

mark_donated_KeepsDate(reg, ref, now) ==
    [reg EXCEPT ![ref[1]][ref[2]] = [@ EXCEPT !.total_donations = @ + 1]]

(* The two assignments that mark a donor as having donated today. *)
mark_donated(reg, ref, now) ==
    [reg EXCEPT ![ref[1]][ref[2]] =
        [@ EXCEPT !.last_donation_date = strftime(now),
                  !.total_donations = @ + 1]]

(* The first of the two assignments alone (lines 249 and 337). *)
mark_date(reg, ref, now) ==
    [reg EXCEPT ![ref[1]][ref[2]] = [@ EXCEPT !.last_donation_date = strftime(now)]]

(* The store of the second assignment (lines 250 and 338), whose right     *)
(* hand side was evaluated to count + 1 before.                            *)
store_count(reg, ref, count) ==
    [reg EXCEPT ![ref[1]][ref[2]] = [@ EXCEPT !.total_donations = count + 1]]

TotalDonors(reg) ==
    LET RECURSIVE sum(_)
        sum(S) == IF S = {} THEN 0
                  ELSE LET t == CHOOSE x \in S : TRUE IN Len(reg[t]) + sum(S \ {t})
    IN sum(CanonicalTypes)

(* ------------------------------- heapq --------------------------------- *)
(* Comparison of two heap entries (urgency, counter, request_data) as      *)
(* Python compares tuples.  When requests are served one after the other  *)
(* the counters of two entries differ and the request_data is never        *)
(* compared; for entries with equal counters see CompareRaises.            *)
TicketLess_NoTieBreak(a, b) == a.urgency < b.urgency

TicketLess(a, b) ==
    a.urgency < b.urgency \/ (a.urgency = b.urgency /\ a.counter < b.counter)

(* heapq._siftdown(heap, startpos, pos) with newitem taken out of the heap *)
RECURSIVE siftdown(_, _, _, _)
siftdown(heap, startpos, pos, newitem) ==
    IF pos > startpos /\ TicketLess(newitem, heap[((pos - 1) \div 2) + 1])
    THEN siftdown([heap EXCEPT ![pos + 1] = heap[((pos - 1) \div 2) + 1]],
                  startpos, (pos - 1) \div 2, newitem)
    ELSE [heap EXCEPT ![pos + 1] = newitem]

(* heapq._siftup(heap, pos): the smaller child is moved up until a leaf is *)
(* reached, then newitem is sifted down from there.                        *)
RECURSIVE siftup(_, _, _, _)
siftup(heap, startpos, pos, newitem) ==
    LET endpos == Len(heap)
        childpos == 2 * pos + 1
        rightpos == childpos + 1
        c == IF rightpos < endpos /\ ~TicketLess(heap[childpos + 1], heap[rightpos + 1])
             THEN rightpos ELSE childpos
    IN IF childpos < endpos
       THEN siftup([heap EXCEPT ![pos + 1] = heap[c + 1]], startpos, c, newitem)
       ELSE siftdown([heap EXCEPT ![pos + 1] = newitem], startpos, pos, newitem)

heappush(heap, item) == siftdown(Append(heap, item), 0, Len(heap), item)

heappop_Peek(heap) == <<heap[1], heap>>

(* heappop returns the pair of the popped item and the heap left. *)
heappop(heap) ==
    LET lastelt == heap[Len(heap)]
        rest == SubSeq(heap, 1, Len(heap) - 1)
    IN IF rest = <<>> THEN <<lastelt, rest>>
       ELSE <<heap[1], siftup([rest EXCEPT ![1] = lastelt], 0, 0, lastelt)>>

(* The heap functions as the C module _heapq runs them on a list in which  *)
(* two entries may carry the same urgency and the same counter.  The       *)
(* comparison of two such tuples goes on to the request_data, two dicts    *)
(* with different ids, and raises TypeError; the list stays as the swaps   *)
(* made so far have left it.                                               *)
CompareRaises(a, b) == a.urgency = b.urgency /\ a.counter = b.counter

Swap(heap, i, j) == [heap EXCEPT ![i + 1] = heap[j + 1], ![j + 1] = heap[i + 1]]

RECURSIVE siftdown_checked(_, _, _)
siftdown_checked(heap, startpos, pos) ==
    LET parentpos == (pos - 1) \div 2 IN
    IF pos <= startpos THEN [heap |-> heap, raised |-> FALSE]
    ELSE IF CompareRaises(heap[pos + 1], heap[parentpos + 1])
    THEN [heap |-> heap, raised |-> TRUE]
    ELSE IF TicketLess(heap[pos + 1], heap[parentpos + 1])
    THEN siftdown_checked(Swap(heap, pos, parentpos), startpos, parentpos)
    ELSE [heap |-> heap, raised |-> FALSE]

RECURSIVE siftup_checked(_, _, _)
siftup_checked(heap, startpos, pos) ==
    LET endpos == Len(heap)
        limit == endpos \div 2
        childpos == 2 * pos + 1
    IN IF pos >= limit THEN siftdown_checked(heap, startpos, pos)
       ELSE IF childpos + 1 < endpos /\ CompareRaises(heap[childpos + 1], heap[childpos + 2])
       THEN [heap |-> heap, raised |-> TRUE]
       ELSE LET c == IF childpos + 1 < endpos
                        /\ ~TicketLess(heap[childpos + 1], heap[childpos + 2])
                     THEN childpos + 1 ELSE childpos
            IN siftup_checked(Swap(heap, c, pos), startpos, c)

heappush_checked(heap, item) == siftdown_checked(Append(heap, item), 0, Len(heap))

heappop_checked(heap) ==
    LET lastelt == heap[Len(heap)]
        rest == SubSeq(heap, 1, Len(heap) - 1)
    IN IF rest = <<>> THEN [item |-> lastelt, heap |-> rest, raised |-> FALSE]
       ELSE LET r == siftup_checked([rest EXCEPT ![1] = lastelt], 0, 0)
            IN [item |-> heap[1], heap |-> r.heap, raised |-> r.raised]

(* sorted(emergency_requests, key=lambda x: (x[0], x[1])): stable insertion *)
(* of each entry after the entries whose key is not larger.                *)
KeyLess(a, b) ==
    a.urgency < b.urgency \/ (a.urgency = b.urgency /\ a.counter < b.counter)

RECURSIVE sorted_insert(_, _)
sorted_insert(out, x) ==
    IF out = <<>> THEN <<x>>
    ELSE IF KeyLess(x, out[Len(out)])
         THEN Append(sorted_insert(SubSeq(out, 1, Len(out) - 1), x), out[Len(out)])
         ELSE Append(out, x)

RECURSIVE sorted_from(_, _, _)
sorted_from(heap, k, out) ==
    IF k > Len(heap) THEN out ELSE sorted_from(heap, k + 1, sorted_insert(out, heap[k]))

sorted(heap) == sorted_from(heap, 1, <<>>)

(* ------------------------------ inputs --------------------------------- *)
(* The queries of GET /api/match: raw blood group and site. *)
MatchInputs ==
    { [blood_group |-> <<" ", "a", "+", " ">>, location |-> "Hospital C"],
      [blood_group |-> <<"A", "B", "%", "2", "B">>, location |-> "Hospital D"],
      [blood_group |-> <<"A", "\t", "+">>, location |-> "Hospital C"],
      [blood_group |-> <<"o", "-">>, location |-> "Nowhere"],
      [blood_group |-> <<>>, location |-> "Hospital C"] }

(* A JSON value given as urgency_level: its Python type and, for a number  *)
(* or a boolean, the number it compares as (True as 1, False as 0).        *)
IntUrgency(n) == [type |-> "int", v |-> n]
StrUrgency == [type |-> "str", v |-> 0]
BoolUrgency(b) == [type |-> "bool", v |-> IF b THEN 1 ELSE 0]
FloatUrgency(n) == [type |-> "float", v |-> n]

(* isinstance(urgency, int): bool is a subclass of int. *)
isinstance_int(urgency) == urgency.type \in {"int", "bool"}

UrgencyInputs == {IntUrgency(0), IntUrgency(2), StrUrgency}

PatientInputs ==
    { [blood_group |-> <<"A", "B", "%", "2", "B">>, location |-> "Hospital D"],
      [blood_group |-> <<"o", "-">>, location |-> "Nowhere"],
      [blood_group |-> <<>>, location |-> "Hospital A"] }

(* The urgencies of the runs that exercise the validation of submit. *)
MaxUrgencySubmits == 3

SubmitUrgencyInputs ==
    {IntUrgency(0), IntUrgency(1), IntUrgency(5), IntUrgency(6), StrUrgency,
     BoolUrgency(TRUE), BoolUrgency(FALSE), FloatUrgency(2)}

(* The urgencies and patients of the runs that exercise the queue. *)
QueueUrgencyInputs == {IntUrgency(n) : n \in {0, 1, 2, 3, 6}} \cup {StrUrgency}

QueuePatientInputs ==
    { [blood_group |-> <<"A", "B", "%", "2", "B">>, location |-> "Hospital B"],
      [blood_group |-> <<"X", "Y">>, location |-> "Hospital A"],
      [blood_group |-> <<>>, location |-> "Hospital A"] }


DonorInputs ==
    { [name |-> "Ivy",  blood_group |-> <<"a", "+">>, location |-> "Hospital A", last_donation_date |-> Ymd(3)],
      [name |-> "Kim",  blood_group |-> <<"A", "-">>, location |-> "Hospital B", last_donation_date |-> NonText],
      [name |-> "Moe",  blood_group |-> <<"B", "+">>, location |-> "Clinic E", last_donation_date |-> Ymd(3)] }

TickSteps == {89, 90}

(* The registrations of the runs that exercise the validation of register. *)
RegistryDonorInputs ==
    { [name |-> "Ivy", blood_group |-> <<"a", "+">>, location |-> "Hospital A", last_donation_date |-> Ymd(3)],
      [name |-> "Oda", blood_group |-> <<" ", "o", "%", "2", "D", " ">>, location |-> "Hospital D", last_donation_date |-> Malformed],
      [name |-> "Lee", blood_group |-> <<"X", "Y">>, location |-> "Hospital B", last_donation_date |-> Ymd(3)],
      [name |-> "Moe", blood_group |-> <<"B", "+">>, location |-> "Clinic E", last_donation_date |-> Ymd(3)],
      [name |-> "Pat", blood_group |-> <<"a", "b">>, location |-> "Clinic E", last_donation_date |-> Ymd(3)],
      [name |-> "Ned", blood_group |-> <<"O", "+">>, location |-> "Hospital C", last_donation_date |-> Absent],
      [name |-> "Uma", blood_group |-> <<"%", "C", "2", "%", "A", "0", "a", "+", "%", "0", "9", "\r">>, location |-> "Hospital B", last_donation_date |-> Ymd(3)],
      [name |-> "Sol", blood_group |-> <<"%", "C", "3", "%", "9", "F">>, location |-> "Hospital B", last_donation_date |-> Ymd(3)] }

(* ------------------------------ handlers ------------------------------- *)
Failure(op, status, error) == Response(op, status, error, FALSE, NoDonor, 0, <<>>, 0)

(* register that puts the new donor in front of the list of its type. *)
add_donor_Prepends(data) ==
    /\ TotalDonors(donors_by_blood_group) < SampleCount + MaxRegistered
    /\ LET blood_group == normalize_blood_group(data.blood_group) IN
       IF data.last_donation_date.kind = "absent"
       THEN /\ response' = Failure("add_donor", 400, "MissingField")
            /\ UNCHANGED donors_by_blood_group
       ELSE IF blood_group \notin DOMAIN BLOOD_COMPATIBILITY
       THEN /\ response' = Failure("add_donor", 400, "InvalidBloodType")
            /\ UNCHANGED donors_by_blood_group
       ELSE IF data.location \notin DOMAIN LOCATIONS
       THEN /\ response' = Failure("add_donor", 400, "InvalidSite")
            /\ UNCHANGED donors_by_blood_group
       ELSE /\ donors_by_blood_group' =
                  [donors_by_blood_group EXCEPT ![blood_group] =
                      <<Donor(TotalDonors(donors_by_blood_group) + 1, data.name,
                              blood_group, data.location, data.last_donation_date)>> \o @]
            /\ response' = Response("add_donor", 201, "none", FALSE,
                                    <<blood_group, 1>>, 0, <<>>, 0)
    /\ UNCHANGED <<emergency_requests, emergency_counter, matching_history, today, processed>>

(* POST /api/donors *)
add_donor(data) ==
    /\ TotalDonors(donors_by_blood_group) < SampleCount + MaxRegistered
    /\ LET blood_group == normalize_blood_group(data.blood_group) IN
       IF data.last_donation_date.kind = "absent"
       THEN /\ response' = Failure("add_donor", 400, "MissingField")
            /\ UNCHANGED donors_by_blood_group
       ELSE IF blood_group \notin DOMAIN BLOOD_COMPATIBILITY
       THEN /\ response' = Failure("add_donor", 400, "InvalidBloodType")
            /\ UNCHANGED donors_by_blood_group
       ELSE IF data.location \notin DOMAIN LOCATIONS
       THEN /\ response' = Failure("add_donor", 400, "InvalidSite")
            /\ UNCHANGED donors_by_blood_group
       ELSE /\ donors_by_blood_group' =
                  [donors_by_blood_group EXCEPT ![blood_group] =
                      Append(@, Donor(TotalDonors(donors_by_blood_group) + 1, data.name,
                                      blood_group, data.location, data.last_donation_date))]
            /\ response' = Response("add_donor", 201, "none", FALSE,
                                    <<blood_group, Len(donors_by_blood_group[blood_group]) + 1>>,
                                    0, <<>>, 0)
    /\ UNCHANGED <<emergency_requests, emergency_counter, matching_history, today, processed>>

MatchRecord(now, type, urgency, patient_blood, patient_location, donor, distance) ==
    [timestamp |-> now, type |-> type, urgency |-> urgency,
     patient_blood |-> patient_blood, patient_location |-> patient_location,
     donor_name |-> donor.name, donor_blood |-> donor.blood_group,
     donor_location |-> donor.location, distance_km |-> distance]

(* GET /api/match *)
match_donor(blood_group, location) ==
    /\ Len(matching_history) < MaxMatches
    /\ IF blood_group = <<>> \/ location = ""
       THEN /\ response' = Failure("match_donor", 400, "MissingField")
            /\ UNCHANGED <<donors_by_blood_group, matching_history>>
       ELSE LET r == find_nearest_donor(donors_by_blood_group, today, blood_group, location) IN
            IF r.error = "TypeError"
            THEN /\ response' = Failure("match_donor", 500, "TypeError")
                 /\ UNCHANGED <<donors_by_blood_group, matching_history>>
            ELSE IF r.error # "none"
            THEN /\ response' = Failure("match_donor", 404, r.error)
                 /\ UNCHANGED <<donors_by_blood_group, matching_history>>
            ELSE /\ donors_by_blood_group' = mark_donated(donors_by_blood_group, r.donor, today)
                 /\ matching_history' =
                       Append(matching_history,
                              MatchRecord(today, "Normal", 0, normalize_blood_group(blood_group),
                                          location, DonorAt(donors_by_blood_group, r.donor),
                                          r.distance))
                 /\ response' = Response("match_donor", 200, "none", TRUE, r.donor,
                                         r.distance, <<>>, 0)
    /\ UNCHANGED <<emergency_requests, emergency_counter, today, processed>>

(* submit that numbers a ticket by its place in the queue. *)
emergency_request_NumberByQueueSize(urgency, patient, maxSubmits) ==
    /\ emergency_counter < maxSubmits
    /\ IF patient.blood_group = <<>> \/ patient.location = ""
       THEN /\ response' = Failure("emergency_request", 400, "MissingField")
            /\ UNCHANGED <<emergency_requests, emergency_counter>>
       ELSE IF ~isinstance_int(urgency) \/ urgency.v < 1 \/ urgency.v > 5
       THEN /\ response' = Failure("emergency_request", 400, "InvalidUrgency")
            /\ UNCHANGED <<emergency_requests, emergency_counter>>
       ELSE LET request_data == [id |-> emergency_counter + 1, patient |-> patient,
                                 timestamp |-> today]
                item == [urgency |-> urgency.v, urgency_type |-> urgency.type,
                         counter |-> Len(emergency_requests) + 1,
                         data |-> request_data]
            IN /\ emergency_counter' = emergency_counter + 1
               /\ emergency_requests' = heappush(emergency_requests, item)
               /\ response' = Response("emergency_request", 201, "none", FALSE, NoDonor, 0,
                                       <<item>>, Len(emergency_requests) + 1)
    /\ UNCHANGED <<donors_by_blood_group, matching_history, today, processed>>

(* POST /api/emergency; maxSubmits caps the counter. *)
emergency_request(urgency, patient, maxSubmits) ==
    /\ emergency_counter < maxSubmits
    /\ IF patient.blood_group = <<>> \/ patient.location = ""
       THEN /\ response' = Failure("emergency_request", 400, "MissingField")
            /\ UNCHANGED <<emergency_requests, emergency_counter>>
       ELSE IF ~isinstance_int(urgency) \/ urgency.v < 1 \/ urgency.v > 5
       THEN /\ response' = Failure("emergency_request", 400, "InvalidUrgency")
            /\ UNCHANGED <<emergency_requests, emergency_counter>>
       ELSE LET request_data == [id |-> emergency_counter + 1, patient |-> patient,
                                 timestamp |-> today]
                item == [urgency |-> urgency.v, urgency_type |-> urgency.type,
                         counter |-> emergency_counter + 1,
                         data |-> request_data]
            IN /\ emergency_counter' = emergency_counter + 1
               /\ emergency_requests' = heappush(emergency_requests, item)
               /\ response' = Response("emergency_request", 201, "none", FALSE, NoDonor, 0,
                                       <<item>>, Len(emergency_requests) + 1)
    /\ UNCHANGED <<donors_by_blood_group, matching_history, today, processed>>

(* processNext that puts a ticket back when no donor was found for it. *)
process_next_emergency_Requeue ==
    IF emergency_requests = <<>>
    THEN /\ response' = Failure("process_next_emergency", 404, "QueueEmpty")
         /\ UNCHANGED <<donors_by_blood_group, emergency_requests, emergency_counter,
                        matching_history, today, processed>>
    ELSE LET popped == heappop(emergency_requests)
             item == popped[1]
             patient == item.data.patient
             r == find_nearest_donor(donors_by_blood_group, today,
                                     patient.blood_group, patient.location)
         IN /\ processed' = processed + 1
            /\ IF r.error # "none"
               THEN /\ emergency_requests' = heappush(popped[2], item)
                    /\ response' = Response("process_next_emergency", 200, r.error, FALSE,
                                            NoDonor, 0, <<item>>, Len(emergency_requests))
                    /\ UNCHANGED <<donors_by_blood_group, matching_history>>
               ELSE /\ emergency_requests' = popped[2]
                    /\ donors_by_blood_group' =
                          mark_donated(donors_by_blood_group, r.donor, today)
                    /\ matching_history' =
                          Append(matching_history,
                                 MatchRecord(today, "Emergency", item.urgency,
                                             patient.blood_group, patient.location,
                                             DonorAt(donors_by_blood_group, r.donor),
                                             r.distance))
                    /\ response' = Response("process_next_emergency", 200, "none", TRUE,
                                            r.donor, r.distance, <<item>>, Len(popped[2]))
            /\ UNCHANGED <<emergency_counter, today>>

(* POST /api/emergency/process *)
process_next_emergency ==
    IF emergency_requests = <<>>
    THEN /\ response' = Failure("process_next_emergency", 404, "QueueEmpty")
         /\ UNCHANGED <<donors_by_blood_group, emergency_requests, emergency_counter,
                        matching_history, today, processed>>
    ELSE LET popped == heappop(emergency_requests)
             item == popped[1]
             patient == item.data.patient
             r == find_nearest_donor(donors_by_blood_group, today,
                                     patient.blood_group, patient.location)
         IN /\ emergency_requests' = popped[2]
            /\ processed' = processed + 1
            /\ IF r.error = "TypeError"
               THEN /\ response' = Failure("process_next_emergency", 500, "TypeError")
                    /\ UNCHANGED <<donors_by_blood_group, matching_history>>
               ELSE IF r.error # "none"
               THEN /\ response' = Response("process_next_emergency", 200, r.error, FALSE,
                                            NoDonor, 0, <<item>>, Len(popped[2]))
                    /\ UNCHANGED <<donors_by_blood_group, matching_history>>
               ELSE /\ donors_by_blood_group' =
                          mark_donated(donors_by_blood_group, r.donor, today)
                    /\ matching_history' =
                          Append(matching_history,
                                 MatchRecord(today, "Emergency", item.urgency,
                                             patient.blood_group, patient.location,
                                             DonorAt(donors_by_blood_group, r.donor),
                                             r.distance))
                    /\ response' = Response("process_next_emergency", 200, "none", TRUE,
                                            r.donor, r.distance, <<item>>, Len(popped[2]))
            /\ UNCHANGED <<emergency_counter, today>>

(* peekAll that sorts the stored list itself instead of a copy of it. *)
view_emergency_queue_SortsInPlace ==
    /\ response' = Response("view_emergency_queue", 200, "none", FALSE, NoDonor, 0,
                            IF emergency_requests = <<>> THEN <<>>
                            ELSE sorted(emergency_requests),
                            Len(emergency_requests))
    /\ emergency_requests' =
          IF emergency_requests = <<>> THEN <<>> ELSE sorted(emergency_requests)
    /\ UNCHANGED <<donors_by_blood_group, emergency_counter,
                   matching_history, today, processed>>

(* GET /api/emergency/queue *)
view_emergency_queue ==
    /\ response' = Response("view_emergency_queue", 200, "none", FALSE, NoDonor, 0,
                            IF emergency_requests = <<>> THEN <<>>
                            ELSE sorted(emergency_requests),
                            Len(emergency_requests))
    /\ UNCHANGED <<donors_by_blood_group, emergency_requests, emergency_counter,
                   matching_history, today, processed>>

(* GET /api/stats: the counts of every blood group, in the order of the    *)
(* keys of BLOOD_COMPATIBILITY.  is_donor_eligible is called outside any   *)
(* try block, so what it raises ends the request with status 500.          *)
BloodGroupKeys == <<"O-", "O+", "A-", "A+", "B-", "B+", "AB-", "AB+">>

RECURSIVE count_eligible(_, _, _)
count_eligible(donors, now, k) ==
    IF k > Len(donors) THEN 0
    ELSE (IF is_donor_eligible(donors[k], now) = "true" THEN 1 ELSE 0)
         + count_eligible(donors, now, k + 1)

StatsRaise(reg, now) ==
    \E t \in CanonicalTypes : \E k \in 1..Len(reg[t]) :
        is_donor_eligible(reg[t][k], now) = "raise"

get_stats ==
    /\ response' =
          IF StatsRaise(donors_by_blood_group, today)
          THEN Failure("get_stats", 500, "TypeError")
          ELSE Listing("get_stats", 200, "none",
                 [i \in 1..Len(BloodGroupKeys) |->
                    LET donors == donors_by_blood_group[BloodGroupKeys[i]]
                        eligible == count_eligible(donors, today, 1)
                    IN [blood_group |-> BloodGroupKeys[i], total |-> Len(donors),
                        eligible |-> eligible, not_eligible |-> Len(donors) - eligible]])
    /\ UNCHANGED <<donors_by_blood_group, emergency_requests, emergency_counter,
                   matching_history, today, processed>>

(* GET /api/matching-history.  The match_id is a fresh uuid4 of every call *)
(* and is left out; urgency_level 0 stands for the text 'N/A' given to a   *)
(* record without an 'urgency' key.                                        *)
formatted_match(match) ==
    [timestamp |-> match.timestamp, match_type |-> match.type,
     urgency_level |-> match.urgency,
     patient |-> [blood_group |-> match.patient_blood,
                  location |-> match.patient_location],
     donor |-> [name |-> match.donor_name, blood_group |-> match.donor_blood,
                location |-> match.donor_location],
     distance_km |-> match.distance_km]

reversed_Same(s) == s

reversed(s) == [i \in 1..Len(s) |-> s[Len(s) + 1 - i]]

get_matching_history ==
    /\ LET formatted_matches ==
              [i \in 1..Len(matching_history) |-> formatted_match(matching_history[i])]
       IN response' = [Listing("get_matching_history", 200, "none",
                               reversed(formatted_matches))
                       EXCEPT !.remaining = Len(formatted_matches)]
    /\ UNCHANGED <<donors_by_blood_group, emergency_requests, emergency_counter,
                   matching_history, today, processed>>

(* The calendar advances. *)
Tick(d) ==
    /\ today + d <= MaxDay
    /\ today' = today + d
    /\ UNCHANGED <<donors_by_blood_group, emergency_requests, emergency_counter,
                   matching_history, processed, response>>

AddDonor == (\E data \in DonorInputs : add_donor(data)) /\ UNCHANGED threads
MatchDonor ==
    (\E q \in MatchInputs : match_donor(q.blood_group, q.location)) /\ UNCHANGED threads
EmergencyRequest ==
    (\E u \in UrgencyInputs, p \in PatientInputs : emergency_request(u, p, MaxSubmits))
    /\ UNCHANGED threads
ProcessNext == process_next_emergency /\ UNCHANGED threads
ViewQueue == view_emergency_queue /\ UNCHANGED threads
Advance == (\E d \in TickSteps : Tick(d)) /\ UNCHANGED threads
GetStats == get_stats /\ UNCHANGED threads
GetHistory == get_matching_history /\ UNCHANGED threads

Next ==
    \/ AddDonor \/ MatchDonor \/ EmergencyRequest \/ ProcessNext \/ ViewQueue \/ Advance
    \/ GetStats \/ GetHistory

Spec == Init /\ [][Next]_vars

(* The engine driven through its emergency queue only, from a start on day *)
(* 95, with more submissions.                                              *)
InitQueue == Init /\ today = 95

QueueRequest ==
    (\E u \in QueueUrgencyInputs, p \in QueuePatientInputs :
        emergency_request(u, p, MaxQueueSubmits))
    /\ UNCHANGED threads
QueueProcess == process_next_emergency /\ UNCHANGED threads
QueueView == view_emergency_queue /\ UNCHANGED threads

NextQueue == QueueRequest \/ QueueProcess \/ QueueView

SpecQueue == InitQueue /\ [][NextQueue]_vars

(* The registry driven with registrations of every kind, with matches and *)
(* statistics in between.                                                  *)
RegistryAdd == (\E data \in RegistryDonorInputs : add_donor(data)) /\ UNCHANGED threads
RegistryMatch ==
    (\E q \in MatchInputs : match_donor(q.blood_group, q.location)) /\ UNCHANGED threads
RegistryStats == get_stats /\ UNCHANGED threads
RegistryAdvance == (\E d \in TickSteps : Tick(d)) /\ UNCHANGED threads

NextRegistry == RegistryAdd \/ RegistryMatch \/ RegistryStats \/ RegistryAdvance

SpecRegistry == Init /\ [][NextRegistry]_vars

(* The two functions the matching rests on, called on their own: the      *)
(* distance between the sites a, b and c in every direction the triangle   *)
(* inequality needs, and the eligibility on the current day of a donor     *)
(* with a given last_donation_date.                                        *)
DateInputs == {Ymd(d) : d \in {0, 1, 5, 6, 90, 95, 96}} \cup {Malformed, Absent}

distance_query(a, b, c) ==
    /\ response' = Listing("calculate_distance", 200, "none",
                           <<[from |-> a, via |-> b, to |-> c,
                              ab |-> calculate_distance(a, b),
                              ba |-> calculate_distance(b, a),
                              bc |-> calculate_distance(b, c),
                              ac |-> calculate_distance(a, c),
                              aa |-> calculate_distance(a, a)]>>)
    /\ UNCHANGED <<donors_by_blood_group, emergency_requests, emergency_counter,
                   matching_history, today, processed>>

eligibility_query(date) ==
    /\ LET donor == Donor(0, "", "O-", "Hospital A", date)
           eligible == is_donor_eligible(donor, today)
       IN response' = Listing("is_donor_eligible", 200, "none",
                              <<[last_donation_date |-> date, now |-> today,
                                 eligible |-> eligible]>>)
    /\ UNCHANGED <<donors_by_blood_group, emergency_requests, emergency_counter,
                   matching_history, today, processed>>

DistanceQuery ==
    (\E a \in RequestSites, b \in RequestSites, c \in RequestSites : distance_query(a, b, c))
    /\ UNCHANGED threads
EligibilityQuery == (\E date \in DateInputs : eligibility_query(date)) /\ UNCHANGED threads
ClockAdvance == (\E d \in TickSteps : Tick(d)) /\ UNCHANGED threads

NextFunctions == DistanceQuery \/ EligibilityQuery \/ ClockAdvance

SpecFunctions == Init /\ [][NextFunctions]_vars

(* The queue driven with urgency values of every JSON type. *)
UrgencyRequest ==
    (\E u \in SubmitUrgencyInputs, p \in QueuePatientInputs :
        emergency_request(u, p, MaxUrgencySubmits))
    /\ UNCHANGED threads
UrgencyProcess == process_next_emergency /\ UNCHANGED threads
UrgencyView == view_emergency_queue /\ UNCHANGED threads

NextUrgency == UrgencyRequest \/ UrgencyProcess \/ UrgencyView

SpecUrgency == InitQueue /\ [][NextUrgency]_vars

(* ------------------------- concurrent requests ------------------------- *)
(* app.run serves every request on a thread of its own and the handlers    *)
(* share the module's globals without a lock.  Another thread can run      *)
(* after every call a handler makes, and while a handler builds a tuple,   *)
(* a list or a dict, where the garbage collector can run a finalizer.  So  *)
(* a handler is cut into steps that each hold one access to the globals:   *)
(* the test of the queue with the heappop, every extend of                 *)
(* all_compatible_donors by the list of one blood type, every pass of the  *)
(* loop of find_nearest_donor (which reads the candidate's date), the      *)
(* write of the date with the read of total_donations, the write of        *)
(* total_donations, the append to matching_history, the increment of       *)
(* emergency_counter[0] with its read for the ticket, the push, the read   *)
(* of len(emergency_requests) for a reply, and the return of the reply,    *)
(* which comes after the call of jsonify.                                  *)

(* The locals of a handler that has called find_nearest_donor: the list    *)
(* all_compatible_donors, and the position k in compatible_types or, with  *)
(* the loop variables, in all_compatible_donors.                           *)
Busy(t, pc, bg, loc, cands, item) ==
    [threads EXCEPT ![t] = [Idle EXCEPT !.pc = pc, !.blood_group = bg, !.location = loc,
                                        !.cands = cands, !.k = 1, !.donor = NoDonor,
                                        !.distance = INF, !.item = item]]

(* The locals of a handler whose find_nearest_donor returned an error      *)
(* before its loop.                                                        *)
Failed(t, pc, error, item) ==
    [threads EXCEPT ![t] = [Idle EXCEPT !.pc = pc, !.error = error, !.item = item]]

(* The locals of a handler that has built its reply and has not returned  *)
(* it yet.                                                                 *)
Returning(t, reply) ==
    [threads EXCEPT ![t] = [Idle EXCEPT !.pc = "return", !.reply = reply]]

(* match_donor up to the first extend of find_nearest_donor: the 400 reply *)
(* for a missing parameter (lines 240 and 241), the 404 reply for a blood  *)
(* group that is no key of BLOOD_COMPATIBILITY (lines 86 to 89), or the    *)
(* empty list all_compatible_donors.                                       *)
match_donor_find(t, blood_group, location) ==
    /\ threads[t].pc = "idle"
    /\ Len(matching_history) < MaxMatches
    /\ threads' = IF blood_group = <<>> \/ location = ""
                  THEN Returning(t, Failure("match_donor", 400, "MissingField"))
                  ELSE IF normalize_blood_group(blood_group) \notin DOMAIN BLOOD_COMPATIBILITY
                  THEN Returning(t, Failure("match_donor", 404, "InvalidBloodType"))
                  ELSE Busy(t, "match_collect", blood_group, location, <<>>, NoItem)
    /\ UNCHANGED <<donors_by_blood_group, emergency_requests, emergency_counter,
                   matching_history, today, processed, response>>

(* What the handler does with the ticket it popped, up to the first extend *)
(* of find_nearest_donor.                                                  *)
process_next_popped(t, item) ==
    IF normalize_blood_group(item.data.patient.blood_group) \notin DOMAIN BLOOD_COMPATIBILITY
    THEN Failed(t, "process_fail", "InvalidBloodType", item)
    ELSE Busy(t, "process_collect", item.data.patient.blood_group,
              item.data.patient.location, <<>>, item)

(* process_next_emergency up to the first extend of find_nearest_donor:    *)
(* the test of the queue and the heappop are one step, the handler makes   *)
(* no call and builds nothing between them.  A heappop that raises has     *)
(* taken the first entry off the list already.                             *)
process_next_find(t) ==
    /\ threads[t].pc = "idle"
    /\ IF emergency_requests = <<>>
       THEN /\ threads' =
                  Returning(t, Failure("process_next_emergency", 404, "QueueEmpty"))
            /\ UNCHANGED <<emergency_requests, processed>>
       ELSE LET popped == heappop_checked(emergency_requests)
            IN /\ emergency_requests' = popped.heap
               /\ processed' = processed + 1
               /\ threads' =
                     IF popped.raised
                     THEN Returning(t, Failure("process_next_emergency", 500, "TypeError"))
                     ELSE process_next_popped(t, popped.item)
    /\ UNCHANGED <<donors_by_blood_group, emergency_counter, matching_history, today,
                   response>>

(* The locals after the extend that made all_compatible_donors cands: the  *)
(* next blood type, or after the last one the test of line 99 and the      *)
(* loop variables before the first pass.                                   *)
extended(t, th, compatible_types, cands) ==
    IF th.k < Len(compatible_types)
    THEN [threads EXCEPT ![t].k = @ + 1, ![t].cands = cands]
    ELSE IF cands # <<>>
    THEN Busy(t, IF th.pc = "match_collect" THEN "match_loop" ELSE "process_loop",
              th.blood_group, th.location, cands, th.item)
    ELSE IF th.pc = "match_collect"
    THEN Returning(t, Failure("match_donor", 404, "NoCompatibleDonors"))
    ELSE Failed(t, "process_fail", "NoCompatibleDonors", th.item)

(* One extend of all_compatible_donors (line 97), which reads the list of  *)
(* one blood type as it is now.                                            *)
extend(t, th, compatible_types) ==
    extended(t, th, compatible_types,
             th.cands \o all_compatible_donors(donors_by_blood_group,
                                               <<compatible_types[th.k]>>, 1))

thread_collect(t) ==
    /\ threads[t].pc \in {"match_collect", "process_collect"}
    /\ threads' = extend(t, threads[t],
                         BLOOD_COMPATIBILITY[normalize_blood_group(threads[t].blood_group)])
    /\ UNCHANGED <<donors_by_blood_group, emergency_requests, emergency_counter,
                   matching_history, today, processed, response>>

(* One pass of the loop of find_nearest_donor (lines 105 to 109), which    *)
(* reads the candidate's date as it is now, and after the last pass the    *)
(* return of find_nearest_donor to its handler.                            *)
thread_loop(t) ==
    /\ threads[t].pc \in {"match_loop", "process_loop"}
    /\ LET th == threads[t]
           r == loop_body(donors_by_blood_group, today, th.location, th.cands[th.k],
                          th.donor, th.distance)
           op == IF th.pc = "match_loop" THEN "match_donor" ELSE "process_next_emergency"
       IN threads' =
             IF r.raised
             THEN Returning(t, Failure(op, 500, "TypeError"))
             ELSE IF th.k < Len(th.cands)
             THEN [threads EXCEPT ![t].k = @ + 1, ![t].donor = r.donor,
                                  ![t].distance = r.distance]
             ELSE IF r.donor # NoDonor
             THEN [threads EXCEPT
                      ![t].pc = IF @ = "match_loop" THEN "match_mark" ELSE "process_mark",
                      ![t].donor = r.donor,
                      ![t].distance = r.distance]
             ELSE IF th.pc = "match_loop"
             THEN Returning(t, Failure("match_donor", 404, "NoEligibleDonors"))
             ELSE Failed(t, "process_fail", "NoEligibleDonors", th.item)
    /\ UNCHANGED <<donors_by_blood_group, emergency_requests, emergency_counter,
                   matching_history, today, processed, response>>

(* The assignment of the date (lines 249 and 337) and the evaluation of    *)
(* donor.get('total_donations', 0) + 1 (lines 250 and 338): the handler    *)
(* makes no call between the store of the date and the read inside get.    *)
thread_mark(t) ==
    /\ threads[t].pc \in {"match_mark", "process_mark"}
    /\ donors_by_blood_group' = mark_date(donors_by_blood_group, threads[t].donor, today)
    /\ threads' = [threads EXCEPT
                      ![t].pc = IF @ = "match_mark" THEN "match_count" ELSE "process_count",
                      ![t].count = DonorAt(donors_by_blood_group, threads[t].donor).total_donations]
    /\ UNCHANGED <<emergency_requests, emergency_counter, matching_history, today,
                   processed, response>>

(* The store into donor['total_donations'] (lines 250 and 338). *)
thread_count(t) ==
    /\ threads[t].pc \in {"match_count", "process_count"}
    /\ donors_by_blood_group' =
          store_count(donors_by_blood_group, threads[t].donor, threads[t].count)
    /\ threads' = [threads EXCEPT
                      ![t].pc = IF @ = "match_count" THEN "match_record" ELSE "process_record"]
    /\ UNCHANGED <<emergency_requests, emergency_counter, matching_history, today,
                   processed, response>>

(* The append to matching_history (lines 252 and 341).  match_donor then   *)
(* builds its reply from its locals; process_next_emergency reads the      *)
(* queue for it in a step of its own.                                      *)
thread_record(t) ==
    /\ threads[t].pc \in {"match_record", "process_record"}
    /\ LET th == threads[t]
           donor == DonorAt(donors_by_blood_group, th.donor)
       IN IF th.pc = "match_record"
          THEN /\ matching_history' =
                     Append(matching_history,
                            MatchRecord(today, "Normal", 0,
                                        normalize_blood_group(th.blood_group),
                                        th.location, donor, th.distance))
               /\ threads' = Returning(t, Response("match_donor", 200, "none", TRUE,
                                                   th.donor, th.distance, <<>>, 0))
          ELSE /\ matching_history' =
                     Append(matching_history,
                            MatchRecord(today, "Emergency", th.item.urgency, th.blood_group,
                                        th.location, donor, th.distance))
               /\ threads' = [threads EXCEPT ![t].pc = "process_reply"]
    /\ UNCHANGED <<donors_by_blood_group, emergency_requests, emergency_counter, today,
                   processed, response>>

(* The read of len(emergency_requests) for the replies that hold it:       *)
(* lines 333, 360 and 303.                                                 *)
thread_reply(t) ==
    /\ threads[t].pc \in {"process_fail", "process_reply", "submit_reply"}
    /\ LET th == threads[t] IN
       threads' = Returning(t,
          CASE th.pc = "process_fail" ->
                 Response("process_next_emergency", 200, th.error, FALSE, NoDonor, 0,
                          <<th.item>>, Len(emergency_requests))
            [] th.pc = "process_reply" ->
                 Response("process_next_emergency", 200, "none", TRUE, th.donor,
                          th.distance, <<th.item>>, Len(emergency_requests))
            [] th.pc = "submit_reply" ->
                 Response("emergency_request", 201, "none", FALSE, NoDonor, 0,
                          <<th.item>>, Len(emergency_requests)))
    /\ UNCHANGED <<donors_by_blood_group, emergency_requests, emergency_counter,
                   matching_history, today, processed, response>>

(* The return of a handler: its reply is the one the server gave last. *)
thread_return(t) ==
    /\ threads[t].pc = "return"
    /\ response' = threads[t].reply
    /\ threads' = [threads EXCEPT ![t] = Idle]
    /\ UNCHANGED <<donors_by_blood_group, emergency_requests, emergency_counter,
                   matching_history, today, processed>>

(* The tickets that were pushed so far or are about to be pushed. *)
submitted ==
    Len(emergency_requests) + processed
      + Cardinality({u \in Threads : threads[u].pc = "submit_push"})

(* submit that reads the counter for its ticket and does not store the     *)
(* incremented value.                                                      *)
emergency_request_number_KeepsCounter(t, urgency, patient) ==
    /\ threads[t].pc = "idle"
    /\ submitted < MaxConcSubmits
    /\ IF patient.blood_group = <<>> \/ patient.location = ""
       THEN /\ threads' = Returning(t, Failure("emergency_request", 400, "MissingField"))
            /\ UNCHANGED emergency_counter
       ELSE IF ~isinstance_int(urgency) \/ urgency.v < 1 \/ urgency.v > 5
       THEN /\ threads' = Returning(t, Failure("emergency_request", 400, "InvalidUrgency"))
            /\ UNCHANGED emergency_counter
       ELSE /\ UNCHANGED emergency_counter
            /\ threads' =
                  [threads EXCEPT ![t] =
                     [Idle EXCEPT
                        !.pc = "submit_push",
                        !.item = [urgency |-> urgency.v, urgency_type |-> urgency.type,
                                  counter |-> emergency_counter + 1,
                                  data |-> [id |-> submitted + 1, patient |-> patient,
                                            timestamp |-> today]]]]
    /\ UNCHANGED <<donors_by_blood_group, emergency_requests, matching_history, today,
                   processed, response>>

(* emergency_request up to the tuple of line 297 (lines 273 to 297).  The  *)
(* calls of the handler (request.json, get, isinstance, uuid4, now) come   *)
(* before line 296 and touch no global; emergency_counter[0] += 1 and the  *)
(* read of emergency_counter[0] for the tuple are subscript and arithmetic *)
(* instructions with no call and nothing built between them, so the        *)
(* ticket takes the number its own increment stored.  The tuple is built   *)
(* after that read and before the call of heappush.                        *)
emergency_request_number(t, urgency, patient) ==
    /\ threads[t].pc = "idle"
    /\ submitted < MaxConcSubmits
    /\ IF patient.blood_group = <<>> \/ patient.location = ""
       THEN /\ threads' = Returning(t, Failure("emergency_request", 400, "MissingField"))
            /\ UNCHANGED emergency_counter
       ELSE IF ~isinstance_int(urgency) \/ urgency.v < 1 \/ urgency.v > 5
       THEN /\ threads' = Returning(t, Failure("emergency_request", 400, "InvalidUrgency"))
            /\ UNCHANGED emergency_counter
       ELSE /\ emergency_counter' = emergency_counter + 1
            /\ threads' =
                  [threads EXCEPT ![t] =
                     [Idle EXCEPT
                        !.pc = "submit_push",
                        !.item = [urgency |-> urgency.v, urgency_type |-> urgency.type,
                                  counter |-> emergency_counter + 1,
                                  data |-> [id |-> submitted + 1, patient |-> patient,
                                            timestamp |-> today]]]]
    /\ UNCHANGED <<donors_by_blood_group, emergency_requests, matching_history, today,
                   processed, response>>

(* The call of heappush with the tuple (line 297); a push that raises has  *)
(* appended the tuple already and is answered with 500.                    *)
emergency_request_push(t) ==
    /\ threads[t].pc = "submit_push"
    /\ LET pushed == heappush_checked(emergency_requests, threads[t].item)
       IN /\ emergency_requests' = pushed.heap
          /\ threads' =
                IF pushed.raised
                THEN Returning(t, Failure("emergency_request", 500, "TypeError"))
                ELSE [threads EXCEPT ![t].pc = "submit_reply"]
    /\ UNCHANGED <<donors_by_blood_group, emergency_counter, matching_history, today,
                   processed, response>>

(* The requests of the threaded runs, which start on day 95, when David    *)
(* Miller and Emma Davis are the eligible donors.                          *)
InitConc == Init /\ today = 95

ConcMatchInputs ==
    { [blood_group |-> <<"a", "-">>, location |-> "Hospital B"],
      [blood_group |-> <<"o", "%", "2", "D">>, location |-> "Hospital C"],
      [blood_group |-> <<"X", "Y">>, location |-> "Hospital A"],
      [blood_group |-> <<>>, location |-> "Hospital C"] }

ConcUrgencyInputs == {IntUrgency(0), IntUrgency(1), IntUrgency(2)}

ConcPatientInputs ==
    { [blood_group |-> <<"o", "-">>, location |-> "Hospital C"],
      [blood_group |-> <<>>, location |-> "Hospital A"] }

ConcMatchFind ==
    \E t \in Threads, q \in ConcMatchInputs : match_donor_find(t, q.blood_group, q.location)
ConcProcessFind == \E t \in Threads : process_next_find(t)
ConcCollect == \E t \in Threads : thread_collect(t)
ConcLoop == \E t \in Threads : thread_loop(t)
ConcMark == \E t \in Threads : thread_mark(t)
ConcCount == \E t \in Threads : thread_count(t)
ConcRecord == \E t \in Threads : thread_record(t)
ConcReply == \E t \in Threads : thread_reply(t)
ConcReturn == \E t \in Threads : thread_return(t)
ConcSubmit ==
    \E t \in Threads, u \in ConcUrgencyInputs, p \in ConcPatientInputs :
        emergency_request_number(t, u, p)
ConcPush == \E t \in Threads : emergency_request_push(t)

NextConc ==
    \/ ConcMatchFind \/ ConcProcessFind \/ ConcCollect \/ ConcLoop \/ ConcMark
    \/ ConcCount \/ ConcRecord \/ ConcReply \/ ConcReturn \/ ConcSubmit \/ ConcPush

SpecConc == InitConc /\ [][NextConc]_vars

(* Two request threads that submit and dequeue tickets. *)
NextConcQueue ==
    \/ ConcSubmit \/ ConcPush \/ ConcProcessFind \/ ConcCollect \/ ConcLoop
    \/ ConcMark \/ ConcCount \/ ConcRecord \/ ConcReply \/ ConcReturn

SpecConcQueue == InitConc /\ [][NextConcQueue]_vars

(* ============================ properties =============================== *)
Range(f) == {f[i] : i \in DOMAIN f}

(* (urgency ascending, then sequence number ascending) *)
PriorityBefore(a, b) ==
    a.urgency < b.urgency \/ (a.urgency = b.urgency /\ a.counter < b.counter)

MinimalTicket(q) == CHOOSE m \in Range(q) : \A x \in Range(q) \ {m} : PriorityBefore(m, x)

(* The step dequeues one ticket. *)
Dequeues == processed' = processed + 1

(* C1: every processNext on a non-empty queue removes exactly the ticket   *)
(* that is minimal by (urgency ascending, sequence number ascending) among *)
(* the queued tickets and returns it; so equal urgencies leave in their    *)
(* submission order.                                                       *)
C1_DequeuesMinimum ==
    [][Dequeues =>
         /\ Range(emergency_requests') =
               Range(emergency_requests) \ {MinimalTicket(emergency_requests)}
         /\ Len(emergency_requests') = Len(emergency_requests) - 1
         /\ response'.tickets = <<MinimalTicket(emergency_requests)>>]_vars

(* Urgencies 3,1,3,2 were submitted in that order; 1, 2 and the first      *)
(* urgency-3 ticket have been dequeued, the second urgency-3 ticket is     *)
(* still queued.                                                           *)
C1_Witness ==
    /\ emergency_counter = 4
    /\ processed = 3
    /\ response.op = "process_next_emergency"
    /\ Len(response.tickets) = 1
    /\ response.tickets[1].urgency = 3
    /\ response.tickets[1].counter = 1
    /\ Len(emergency_requests) = 1
    /\ emergency_requests[1].urgency = 3
    /\ emergency_requests[1].counter = 3

IsPriorityOrdered(q) ==
    \A i \in 1..Len(q) : \A j \in 1..Len(q) : i < j => PriorityBefore(q[i], q[j])

(* C10: the queue holds exactly (accepted submissions - dequeues) tickets, *)
(* never a negative number; every processNext on a non-empty queue removes *)
(* one ticket, matched or not, and no step puts a dequeued ticket back;    *)
(* peekAll lists exactly the queued tickets in priority order; processNext *)
(* on an empty queue answers QueueEmpty and changes nothing.               *)
C10_QueueSize ==
    /\ [](/\ Len(emergency_requests) = emergency_counter - processed
          /\ emergency_counter - processed >= 0
          /\ \A i \in 1..Len(emergency_requests) :
                emergency_requests[i].counter \in 1..emergency_counter)
    /\ [][/\ (process_next_emergency /\ emergency_requests # <<>>) =>
                /\ Len(emergency_requests') = Len(emergency_requests) - 1
                /\ Range(emergency_requests') \subseteq Range(emergency_requests)
          /\ (process_next_emergency /\ emergency_requests = <<>>) =>
                /\ response'.error = "QueueEmpty"
                /\ UNCHANGED <<donors_by_blood_group, emergency_requests,
                               emergency_counter, matching_history, processed>>
          /\ view_emergency_queue =>
                /\ Len(response'.tickets) = emergency_counter - processed
                /\ Range(response'.tickets) = Range(emergency_requests)
                /\ IsPriorityOrdered(response'.tickets)
          /\ \A x \in Range(emergency_requests') \ Range(emergency_requests) :
                x.counter = emergency_counter + 1]_vars

(* Three tickets were accepted, two were dequeued of which the last one    *)
(* found no donor, and one ticket is left.                                 *)
C10_Witness ==
    /\ emergency_counter = 3
    /\ processed = 2
    /\ Len(emergency_requests) = 1
    /\ response.op = "process_next_emergency"
    /\ ~response.match_found
    /\ response.error # "none"

(* --------------------------- matching steps ---------------------------- *)
DonorRefs(reg) == UNION {{<<t, i>> : i \in 1..Len(reg[t])} : t \in CanonicalTypes}

(* At least 90 days have passed since the donor's last donation. *)
EligibleOn(donor, now) ==
    /\ donor.last_donation_date.kind = "ymd"
    /\ now - donor.last_donation_date.day >= 90

(* The donors a patient of the raw blood group bg may be given on day now. *)
Candidates(reg, now, bg) ==
    {r \in DonorRefs(reg) :
        /\ r[1] \in Range(BLOOD_COMPATIBILITY[normalize_blood_group(bg)])
        /\ EligibleOn(DonorAt(reg, r), now)}

(* Minimum total weight of the paths from a to b of at most k edges. *)
RECURSIVE PathWeight(_, _, _)
PathWeight(a, b, k) ==
    IF k = 0 THEN (IF a = b THEN 0 ELSE INF)
    ELSE LET via == {PathWeight(a, c, k - 1) + LOCATIONS[c][b] : c \in Sites}
                    \cup {PathWeight(a, b, k - 1)}
             m == CHOOSE x \in via : \A y \in via : x <= y
         IN IF m > INF THEN INF ELSE m

ShortestPaths == [a \in Sites |-> [b \in Sites |-> PathWeight(a, b, Cardinality(Sites) - 1)]]

shortestDistance(a, b) ==
    IF a \notin Sites \/ b \notin Sites THEN INF ELSE ShortestPaths[a][b]

(* The step is a normal match of request q that found a donor. *)
NormalMatched(q) ==
    /\ response'.match_found
    /\ response'.op = "match_donor"
    /\ today' = today
    /\ match_donor(q.blood_group, q.location)

(* The step is a processNext that found a donor for the dequeued ticket. *)
EmergencyMatched ==
    /\ response'.match_found
    /\ response'.op = "process_next_emergency"
    /\ emergency_requests # <<>>
    /\ processed' # processed
    /\ process_next_emergency

HeadPatient == MinimalTicket(emergency_requests).data.patient

Chosen == DonorAt(donors_by_blood_group, response'.donor)

(* C2: the donor that findBestDonor returns has a blood type of            *)
(* compatibleDonorTypes(patient type) and is eligible (90 days or more     *)
(* since lastDonationDate) on the day of the call.                         *)
CompatibleAndEligible(bg) ==
    /\ response'.donor \in DonorRefs(donors_by_blood_group)
    /\ Chosen.blood_group \in Range(BLOOD_COMPATIBILITY[normalize_blood_group(bg)])
    /\ EligibleOn(Chosen, today)

C2_CompatibleEligible ==
    [][/\ \A q \in MatchInputs : NormalMatched(q) => CompatibleAndEligible(q.blood_group)
       /\ EmergencyMatched => CompatibleAndEligible(HeadPatient.blood_group)]_vars

(* An AB+ patient was given an O- donor. *)
C2_Witness ==
    /\ response.op = "match_donor"
    /\ response.match_found
    /\ response.donor[1] = "O-"
    /\ matching_history # <<>>
    /\ matching_history[Len(matching_history)].patient_blood = "AB+"
    /\ matching_history[Len(matching_history)].donor_blood = "O-"

(* C3: a successful match (normal or emergency) keeps the chosen donor at  *)
(* its place, sets its lastDonationDate to the match day, adds exactly one *)
(* to its totalDonations, keeps its id, name, bloodType and site, and      *)
(* changes, adds or removes no other donor.                                *)
OnlyChosenMutated ==
    LET ref == response'.donor
        old == DonorAt(donors_by_blood_group, ref)
        new == DonorAt(donors_by_blood_group', ref)
    IN /\ ref \in DonorRefs(donors_by_blood_group)
       /\ \A t \in CanonicalTypes :
             Len(donors_by_blood_group'[t]) = Len(donors_by_blood_group[t])
       /\ \A r \in DonorRefs(donors_by_blood_group) \ {ref} :
             DonorAt(donors_by_blood_group', r) = DonorAt(donors_by_blood_group, r)
       /\ new.last_donation_date = Ymd(today)
       /\ new.total_donations = old.total_donations + 1
       /\ new.id = old.id
       /\ new.name = old.name
       /\ new.blood_group = old.blood_group
       /\ new.location = old.location

C3_OnlyChosenDonorChanges ==
    [][/\ \A q \in MatchInputs : NormalMatched(q) => OnlyChosenMutated
       /\ EmergencyMatched => OnlyChosenMutated]_vars

(* A donor was matched for the second time. *)
C3_Witness ==
    /\ response.match_found
    /\ response.donor \in DonorRefs(donors_by_blood_group)
    /\ DonorAt(donors_by_blood_group, response.donor).total_donations = 2
    /\ DonorAt(donors_by_blood_group, response.donor).last_donation_date = Ymd(today)

(* C4: the distance returned with the donor is the shortest-path distance  *)
(* from the patient site to the donor's site, and no compatible eligible   *)
(* donor is strictly nearer.                                               *)
NearestChosen(bg, site) ==
    /\ response'.distance = shortestDistance(site, Chosen.location)
    /\ \A r \in Candidates(donors_by_blood_group, today, bg) :
          shortestDistance(site, DonorAt(donors_by_blood_group, r).location)
             >= response'.distance

C4_NearestDonor ==
    [][/\ \A q \in MatchInputs : NormalMatched(q) => NearestChosen(q.blood_group, q.location)
       /\ EmergencyMatched => NearestChosen(HeadPatient.blood_group, HeadPatient.location)]_vars

(* A donor was returned at a distance that is shorter than the direct edge *)
(* (Hospital D to Hospital C: 18 through Hospital B, 30 directly).         *)
C4_Witness ==
    /\ response.match_found
    /\ response.distance = 18
    /\ response.donor \in DonorRefs(donors_by_blood_group)
    /\ DonorAt(donors_by_blood_group, response.donor).location = "Hospital C"

(* The compatible eligible donors at the minimal distance from site. *)
NearestCandidates(reg, now, bg, site) ==
    {r \in Candidates(reg, now, bg) :
        \A o \in Candidates(reg, now, bg) :
           shortestDistance(site, DonorAt(reg, r).location)
              <= shortestDistance(site, DonorAt(reg, o).location)}

(* Donors are numbered in the order of their registration (field id). *)
RegisteredFirst(reg, refs, r) ==
    /\ r \in refs
    /\ \A o \in refs : DonorAt(reg, r).id <= DonorAt(reg, o).id

(* C5: among the eligible compatible donors at the same minimal distance   *)
(* the one registered earliest is chosen, also across blood types.         *)
FirstRegisteredChosen(bg, site) ==
    RegisteredFirst(donors_by_blood_group,
                    NearestCandidates(donors_by_blood_group, today, bg, site),
                    response'.donor)

C5_FirstRegisteredWins ==
    [][/\ \A q \in MatchInputs :
             NormalMatched(q) => FirstRegisteredChosen(q.blood_group, q.location)
       /\ EmergencyMatched =>
             FirstRegisteredChosen(HeadPatient.blood_group, HeadPatient.location)]_vars

(* C6: a donor chosen by a match on day t is not chosen again before day   *)
(* t + 90: a donor that has donated carries the day of its latest match,   *)
(* a match only returns it 90 days or more after that day, the same        *)
(* request repeated at once does not return it, and when it was the only   *)
(* eligible compatible donor the repeated request fails with               *)
(* NoEligibleDonors.                                                       *)
CarriesMatchDay(donor) ==
    donor.total_donations > 0 =>
       /\ donor.last_donation_date.kind = "ymd"
       /\ donor.last_donation_date.day <= today
       /\ \E i \in 1..Len(matching_history) :
             /\ matching_history[i].timestamp = donor.last_donation_date.day
             /\ matching_history[i].donor_name = donor.name
             /\ matching_history[i].donor_blood = donor.blood_group
             /\ matching_history[i].donor_location = donor.location

CooldownKept(bg, site) ==
    LET again == find_nearest_donor(donors_by_blood_group', today', bg, site) IN
    /\ Chosen.total_donations > 0 => today - Chosen.last_donation_date.day >= 90
    /\ again.donor # response'.donor
    /\ Candidates(donors_by_blood_group, today, bg) = {response'.donor}
          => again.error = "NoEligibleDonors"

C6_NinetyDayCooldown ==
    /\ [](\A r \in DonorRefs(donors_by_blood_group) :
             CarriesMatchDay(DonorAt(donors_by_blood_group, r)))
    /\ [][/\ \A q \in MatchInputs :
                NormalMatched(q) => CooldownKept(q.blood_group, q.location)
          /\ EmergencyMatched =>
                CooldownKept(HeadPatient.blood_group, HeadPatient.location)]_vars

(* The only eligible donor, O-, was given to an AB+ patient on day 90 and  *)
(* the same request now finds nobody eligible.                             *)
C6_Witness ==
    /\ today = 90
    /\ response.op = "match_donor"
    /\ response.match_found
    /\ response.donor = <<"O-", 2>>
    /\ Len(matching_history) = 1
    /\ matching_history[1].patient_blood = "AB+"
    /\ Candidates(donors_by_blood_group, today, <<"A", "B", "+">>) = {}
    /\ find_nearest_donor(donors_by_blood_group, today,
                          <<"A", "B", "%", "2", "B">>, "Hospital D").error
          = "NoEligibleDonors"

(* C8: a match that finds no donor changes neither the registry, nor the   *)
(* ledger, nor the sequence counter; a normal match leaves the queue alone *)
(* too, and processNext only takes the dequeued ticket out of the queue.   *)
C8_FailedMatchFrame ==
    [][/\ \A q \in MatchInputs :
             (~response'.match_found /\ response'.op = "match_donor"
                /\ match_donor(q.blood_group, q.location)) =>
                UNCHANGED <<donors_by_blood_group, matching_history, emergency_counter,
                            emergency_requests>>
       /\ (~response'.match_found /\ emergency_requests # <<>> /\ processed' # processed
             /\ process_next_emergency) =>
             /\ UNCHANGED <<donors_by_blood_group, matching_history, emergency_counter>>
             /\ Range(emergency_requests') =
                   Range(emergency_requests) \ {MinimalTicket(emergency_requests)}
             /\ Len(emergency_requests') = Len(emergency_requests) - 1]_vars

(* A ticket was dequeued, no eligible donor was found for it, and matches  *)
(* had been made before.                                                   *)
C8_Witness ==
    /\ response.op = "process_next_emergency"
    /\ ~response.match_found
    /\ response.error = "NoEligibleDonors"
    /\ processed = 1
    /\ emergency_requests = <<>>
    /\ matching_history # <<>>

(* C9: a match request with a blood type that is not canonical after      *)
(* normalization fails with InvalidBloodType and one with a site outside   *)
(* the known sites fails with InvalidSite.                                 *)
InputErrorsReported(bg, site) ==
    /\ normalize_blood_group(bg) \notin CanonicalTypes
          => response'.error = "InvalidBloodType"
    /\ (normalize_blood_group(bg) \in CanonicalTypes /\ site \notin Sites)
          => response'.error = "InvalidSite"

C9_InputErrors ==
    [][/\ \A q \in MatchInputs :
             (q.blood_group # <<>> /\ q.location # "" /\ response'.op = "match_donor"
                /\ match_donor(q.blood_group, q.location))
             => InputErrorsReported(q.blood_group, q.location)
       /\ (emergency_requests # <<>> /\ processed' # processed /\ process_next_emergency) =>
             InputErrorsReported(HeadPatient.blood_group, HeadPatient.location)]_vars

(* The thread's find_nearest_donor has returned a donor to its handler,   *)
(* which has not replied yet.                                              *)
HoldsDonor(t) ==
    threads[t].pc \in {"match_mark", "match_count", "match_record",
                       "process_mark", "process_count", "process_record",
                       "process_reply"}

(* C7: two matches that run at the same time are never both given the     *)
(* same donor.                                                             *)
C7_NoSharedDonor ==
    \A t1 \in Threads : \A t2 \in Threads \ {t1} :
        (HoldsDonor(t1) /\ HoldsDonor(t2)) => threads[t1].donor # threads[t2].donor

(* ------------------------------ the ledger ----------------------------- *)
SuccessfulMatch == (\E q \in MatchInputs : NormalMatched(q)) \/ EmergencyMatched

(* C11: the ledger grows by exactly one entry at its end with every        *)
(* successful match, normal or emergency, and no other step (register,     *)
(* failed match, submit, processNext without a donor, peekAll, stats,      *)
(* query) changes it: the entries it holds are never modified, removed or  *)
(* reordered.  The query returns all of them, the most recent one first.   *)
C11_LedgerAppendOnly ==
    [][/\ Len(matching_history') >= Len(matching_history)
       /\ SubSeq(matching_history', 1, Len(matching_history)) = matching_history
       /\ Len(matching_history') =
             Len(matching_history) + (IF SuccessfulMatch THEN 1 ELSE 0)
       /\ (response'.op = "get_matching_history" /\ get_matching_history) =>
             /\ response'.status = 200
             /\ response'.remaining = Len(matching_history)
             /\ Len(response'.body) = Len(matching_history)
             /\ \A i \in 1..Len(matching_history) :
                   response'.body[i] =
                      formatted_match(matching_history[Len(matching_history) + 1 - i])]_vars

(* The query answered with two entries, the emergency match made last      *)
(* before the normal match made first.                                     *)
C11_Witness ==
    /\ response.op = "get_matching_history"
    /\ Len(response.body) = 2
    /\ response.body[1].match_type = "Emergency"
    /\ response.body[2].match_type = "Normal"
    /\ Len(matching_history) = 2
    /\ matching_history[2].type = "Emergency"

(* ------------------------------- peekAll ------------------------------- *)
(* C12: peekAll changes nothing but the reply: the stored heap list keeps  *)
(* its contents and its order and the sequence counter keeps its value, so *)
(* the ticket the next processNext dequeues and the number the next submit *)
(* assigns are the same after the call as before it.                       *)
C12_PeekAllFrame ==
    [][(response'.op = "view_emergency_queue" /\ view_emergency_queue) =>
          /\ emergency_requests' = emergency_requests
          /\ emergency_counter' = emergency_counter
          /\ UNCHANGED <<donors_by_blood_group, matching_history, processed, today>>
          /\ emergency_requests # <<>> =>
                heappop(emergency_requests') = heappop(emergency_requests)]_vars

(* peekAll was called, after a dequeue, on a queue of two or more tickets  *)
(* whose stored heap order differs from the priority order listed.         *)
C12_Witness ==
    /\ response.op = "view_emergency_queue"
    /\ processed >= 1
    /\ Len(emergency_requests) >= 2
    /\ response.tickets # emergency_requests
    /\ Range(response.tickets) = Range(emergency_requests)

(* --------------------------- sequence numbers -------------------------- *)
(* C13: submit numbers the tickets in strictly increasing order: the       *)
(* counter never goes down, a ticket that enters the queue carries a       *)
(* number larger than every number given out before, whether or not the    *)
(* earlier tickets are still queued, and no two queued tickets carry the   *)
(* same number.                                                            *)
C13_SequenceNumbers ==
    /\ [](\A i \in 1..Len(emergency_requests) : \A j \in 1..Len(emergency_requests) :
            /\ emergency_requests[i].counter <= emergency_counter
            /\ i # j => emergency_requests[i].counter # emergency_requests[j].counter)
    /\ [][/\ emergency_counter' >= emergency_counter
          /\ \A x \in Range(emergency_requests') \ Range(emergency_requests) :
                /\ x.counter > emergency_counter
                /\ x.counter = emergency_counter'
                /\ response'.tickets = <<x>>]_vars

(* The queue was emptied by two dequeues and the ticket submitted          *)
(* afterwards got the number 3.                                            *)
C13_Witness ==
    /\ response.op = "emergency_request"
    /\ response.status = 201
    /\ processed = 2
    /\ Len(emergency_requests) = 1
    /\ emergency_requests[1].counter = 3

(* ------------------------------- urgency ------------------------------- *)
IntegerInRange(u) == u.type = "int" /\ u.v \in 1..5

(* C14: a submit whose urgency is not an integer in 1..5 (the patient      *)
(* being given) is answered with InvalidUrgency and changes neither the    *)
(* queue nor the sequence counter, and every queued ticket has an integer  *)
(* urgency in 1..5.                                                        *)
C14_InvalidUrgency ==
    /\ [](\A i \in 1..Len(emergency_requests) :
            /\ emergency_requests[i].urgency_type = "int"
            /\ emergency_requests[i].urgency \in 1..5)
    /\ [][\A u \in SubmitUrgencyInputs, p \in QueuePatientInputs :
            (/\ ~IntegerInRange(u)
             /\ p.blood_group # <<>> /\ p.location # ""
             /\ response'.op = "emergency_request"
             /\ emergency_request(u, p, MaxUrgencySubmits)) =>
                /\ response'.error = "InvalidUrgency"
                /\ UNCHANGED <<emergency_requests, emergency_counter>>]_vars

(* ------------------------------ register ------------------------------- *)
WellStored(reg) ==
    \A t \in DOMAIN reg : \A k \in 1..Len(reg[t]) :
        /\ t \in CanonicalTypes
        /\ reg[t][k].blood_group = t
        /\ reg[t][k].location \in Sites

(* The registry after the donor of data was put at the end of the list bg. *)
AppendedTo(bg, data) ==
    /\ Len(donors_by_blood_group'[bg]) = Len(donors_by_blood_group[bg]) + 1
    /\ SubSeq(donors_by_blood_group'[bg], 1, Len(donors_by_blood_group[bg]))
          = donors_by_blood_group[bg]
    /\ LET donor == donors_by_blood_group'[bg][Len(donors_by_blood_group[bg]) + 1]
       IN /\ donor.name = data.name
          /\ donor.blood_group = bg
          /\ donor.location = data.location
          /\ donor.last_donation_date = data.last_donation_date
          /\ donor.total_donations = 0
    /\ \A t \in CanonicalTypes \ {bg} : donors_by_blood_group'[t] = donors_by_blood_group[t]

(* C15: register, given all the fields, rejects a donor whose normalized   *)
(* blood type is not canonical with InvalidBloodType and one whose site is *)
(* not known with InvalidSite, the registry staying as it was, and appends *)
(* an accepted donor at the end of the list of its own blood type; every   *)
(* stored donor has a canonical blood type, is in the list of that type    *)
(* and has a known site.                                                   *)
C15_RegisterValidates ==
    /\ []WellStored(donors_by_blood_group)
    /\ [][\A data \in RegistryDonorInputs :
            (/\ response'.op = "add_donor"
             /\ data.last_donation_date.kind # "absent"
             /\ add_donor(data)) =>
                LET bg == normalize_blood_group(data.blood_group) IN
                IF bg \notin CanonicalTypes
                THEN response'.error = "InvalidBloodType" /\ UNCHANGED donors_by_blood_group
                ELSE IF data.location \notin Sites
                THEN response'.error = "InvalidSite" /\ UNCHANGED donors_by_blood_group
                ELSE response'.status = 201 /\ AppendedTo(bg, data)]_vars

(* A donor given as ' o%2D ' was accepted after a match and is the last of *)
(* the three donors stored under O-.                                       *)
C15_Witness ==
    /\ response.op = "add_donor"
    /\ response.status = 201
    /\ matching_history # <<>>
    /\ Len(donors_by_blood_group["O-"]) = 3
    /\ donors_by_blood_group["O-"][3].name = "Oda"
    /\ donors_by_blood_group["O-"][3].location = "Hospital D"

(* ------------------------------ distances ------------------------------ *)
(* C16: between known sites calculate_distance returns the minimum total   *)
(* weight over all paths, which may be less than the weight of the direct  *)
(* edge; the result is symmetric, is 0 from a site to itself and obeys the *)
(* triangle inequality; a site that is not known gives the unreachable     *)
(* value and no error.                                                     *)
C16_ShortestDistance ==
    response.op = "calculate_distance" =>
        LET r == response.body[1] IN
        /\ response.status = 200
        /\ (r.from \in Sites /\ r.to \in Sites) =>
              /\ r.ac = PathWeight(r.from, r.to, Cardinality(Sites) - 1)
              /\ r.ac <= LOCATIONS[r.from][r.to]
        /\ (r.from \in Sites /\ r.via \in Sites) => r.ab = r.ba
        /\ r.from \in Sites => r.aa = 0
        /\ (r.from \in Sites /\ r.via \in Sites /\ r.to \in Sites) =>
              r.ac <= r.ab + r.bc
        /\ (r.from \notin Sites \/ r.to \notin Sites) => r.ac = INF

(* The distance from Hospital A to Hospital C was asked for: 23 by way of  *)
(* Hospital B, less than the 25 of the direct edge.                        *)
C16_Witness ==
    /\ response.op = "calculate_distance"
    /\ response.body[1].from = "Hospital A"
    /\ response.body[1].via = "Hospital B"
    /\ response.body[1].to = "Hospital C"
    /\ response.body[1].ac = 23
    /\ response.body[1].ac = response.body[1].ab + response.body[1].bc
    /\ LOCATIONS["Hospital A"]["Hospital C"] = 25

(* ----------------------------- eligibility ----------------------------- *)
(* C17: for a donor whose last_donation_date is a date, is_donor_eligible  *)
(* is false when 0 to 89 days have passed since or when the date lies in   *)
(* the future, and true when 90 days or more have passed.                  *)
C17_NinetyDayRule ==
    (response.op = "is_donor_eligible"
       /\ response.body[1].last_donation_date.kind = "ymd") =>
        LET r == response.body[1]
            elapsed == r.now - r.last_donation_date.day
        IN /\ elapsed \in 0..89 => r.eligible = "false"
           /\ elapsed < 0 => r.eligible = "false"
           /\ elapsed = 90 => r.eligible = "true"
           /\ elapsed > 90 => r.eligible = "true"
           /\ r.eligible \in {"true", "false"}

(* Eligibility was asked for on the 90th day after the donation and the    *)
(* answer was true.                                                        *)
C17_Witness ==
    /\ response.op = "is_donor_eligible"
    /\ response.body[1].last_donation_date.kind = "ymd"
    /\ response.body[1].now - response.body[1].last_donation_date.day = 90
    /\ response.body[1].eligible = "true"

(* C18: whatever last_donation_date register stored, is_donor_eligible     *)
(* answers false for it instead of raising, so that no match, processNext  *)
(* or statistics request ends in an error because of a stored date.        *)
C18_FailsClosed ==
    /\ \A t \in CanonicalTypes : \A k \in 1..Len(donors_by_blood_group[t]) :
          is_donor_eligible(donors_by_blood_group[t][k], today) \in {"true", "false"}
    /\ response.op \in {"match_donor", "process_next_emergency", "get_stats"} =>
          response.status # 500

(* ------------------------- matches as one unit ------------------------- *)
RECURSIVE SumDonations(_, _, _)
SumDonations(reg, i, k) ==
    IF i > Len(BloodGroupKeys) THEN 0
    ELSE IF k > Len(reg[BloodGroupKeys[i]]) THEN SumDonations(reg, i + 1, 1)
    ELSE reg[BloodGroupKeys[i]][k].total_donations + SumDonations(reg, i, k + 1)

Quiescent == \A t \in Threads : threads[t].pc = "idle"

(* C19: when no request is being served, the ledger holds as many entries  *)
(* as the donors have donations in total: every match that found a donor   *)
(* has counted one donation and written one entry, and no other request    *)
(* has done either.                                                        *)
C19_LedgerEqualsDonations ==
    Quiescent => Len(matching_history) = SumDonations(donors_by_blood_group, 1, 1)

(* Every entry of the heap list is not before its parent in the order     *)
(* (urgency, sequence number).                                             *)
ValidOrder(q) == \A i \in 2..Len(q) : ~PriorityBefore(q[i], q[i \div 2])

(* The tickets that threads have numbered and not pushed yet. *)
NumberedBy(t) == IF threads[t].pc = "submit_push" THEN {threads[t].item} ELSE {}

====
